---- MODULE Spec2Model ----
(***************************************************************************)
(* Model of the kevinai backend core: the session store                    *)
(* (services/session.py), the tool dispatcher and the agent loop           *)
(* (services/agent.py) and the chat endpoints that drive them              *)
(* (api/routes.py).  Coroutines run on one asyncio event loop: the code    *)
(* between two awaits that really suspend is one atomic step.              *)
(***************************************************************************)
EXTENDS Integers, Sequences, FiniteSets, TLC

VARIABLES
    sessions,        \* SessionService.sessions: id -> [messages, todos]
    used_ids,        \* session ids uuid4 has already produced
    task_todos,      \* TaskTool.todos: session id -> todo list
    session_trackers,\* ModelRouter.session_trackers: id -> usage history
    pc,              \* per invocation of process_message: where it stands
    inv,             \* per invocation: the locals of process_message
    running,         \* the coroutine that holds the event loop, or None
    adv,             \* the chat/advanced request in flight, if any
    api_call,        \* the last call of the tool endpoint, with its result
    tool_req,        \* the tool request whose handler is awaited, if any
    task_call,       \* the last call made on the task tool itself, with its result
    store_call,      \* the last call made on the store itself, with what it returned
    router_call,     \* the last call made on the model router, with what it returned
    events,          \* per invocation: what it has done so far, in order
    pm_overlap,      \* sessions on which two process_message calls overlapped
    chat_overlap     \* sessions on which any two chat requests overlapped

vars == <<sessions, used_ids, task_todos, session_trackers, pc, inv, running,
          adv, api_call, tool_req, task_call, store_call, router_call, events,
          pm_overlap, chat_overlap>>

----------------------------------------------------------------------------
(* Bounds of the model *)

\* largest max_iterations a caller passes
MaxIter == 2
\* a chat request is accepted while the session's log is at most this long
MaxLog == 3
\* largest limit handed to get_conversation_history
MaxLimit == 3
\* usage records per session
MaxUsage == 2

None == "None"
SessionIds == {"s1", "s2"}
Procs == {"p1", "p2"}
\* invocation slots are taken in order
Earlier(p) == IF p = "p2" THEN {"p1"} ELSE {}
UserTexts == {"hello"}
IterChoices == 0..MaxIter

----------------------------------------------------------------------------
(* The LLM boundary and the tool handlers are external: their answers are   *)
(* drawn from these sets.                                                   *)

BashArgs == "{\"command\": \"ls\", \"exec_dir\": \"/tmp\"}"
DeployArgs == "{\"operation\": \"status\", \"name\": \"app\"}"
TodoArgs == "{\"todos\": [{\"content\": \"plan\", \"status\": \"in_progress\"}, {\"content\": \"code\"}]}"
BadTodoArgs == "{\"todos\": [{\"content\": \"plan\"}, {\"status\": \"pending\"}]}"
UserMsgArgs == "{\"message\": \"done\"}"
EmptyArgs == "{}"
NotJson == "{\"command\": "

\* json.loads on the argument texts above: the parsed map, or a decode error
JsonLoads(text) ==
    CASE text = BashArgs -> [ok |-> TRUE, value |-> [command |-> "ls", exec_dir |-> "/tmp"]]
      [] text = DeployArgs -> [ok |-> TRUE, value |-> [operation |-> "status", name |-> "app"]]
      [] text = TodoArgs -> [ok |-> TRUE, value |->
            [todos |-> << [content |-> "plan", status |-> "in_progress"],
                          [content |-> "code"] >>]]
      [] text = BadTodoArgs -> [ok |-> TRUE, value |->
            [todos |-> << [content |-> "plan"], [status |-> "pending"] >>]]
      [] text = UserMsgArgs -> [ok |-> TRUE, value |-> [message |-> "done"]]
      [] text = EmptyArgs -> [ok |-> TRUE, value |-> <<>>]
      [] OTHER -> [ok |-> FALSE]

ToolCall(id, name, arguments) ==
    [id |-> id, type |-> "function",
     function |-> [name |-> name, arguments |-> arguments]]

\* the tool-call lists an LLM response may carry (none, one call, two calls)
ToolCallLists ==
    { <<>>,
      << ToolCall("c1", "bash", BashArgs) >>,
      << ToolCall("c2", "todo_write", TodoArgs), ToolCall("c3", "not_a_real_tool", EmptyArgs) >>,
      << ToolCall("c4", "deploy", DeployArgs), ToolCall("c5", "bash", NotJson) >>,
      << ToolCall("c6", "message_user", NotJson) >>,
      << ToolCall("c7", "deploy", EmptyArgs), ToolCall("c8", "message_user", UserMsgArgs) >> }

\* what chat_completion returns when the provider answers
Responses ==
    { [content |-> "ok", tool_calls |-> tcs] : tcs \in ToolCallLists }

\* ProviderFailure still carrying tool calls
ProviderFailure_KeepsCalls(message) ==
    [content |-> "Error: " \o message,
     tool_calls |-> << ToolCall("c1", "bash", BashArgs) >>]

\* what chat_completion returns when the provider call raises
ProviderFailure(message) == [content |-> "Error: " \o message, tool_calls |-> <<>>]

ProviderErrors == {"provider down"}

HandlerOutcomes == {"ok", "raise"}
ElapsedMs == "elapsed_ms"

----------------------------------------------------------------------------
(* Session store: services/session.py *)

Message(role, content, tool_calls, tool_call_id) ==
    [role |-> role, content |-> content, tool_calls |-> tool_calls,
     tool_call_id |-> tool_call_id]

NewSession == [messages |-> <<>>, todos |-> <<>>]

get_session(S, sid) == IF sid \in DOMAIN S THEN <<S[sid]>> ELSE <<>>

create_session(S, sid) ==
    [x \in DOMAIN S \cup {sid} |-> IF x = sid THEN NewSession ELSE S[x]]

\* delete_session dropping every session
delete_session_All(S, sid) == IF sid \in DOMAIN S THEN <<>> ELSE S

delete_session(S, sid) == [x \in DOMAIN S \ {sid} |-> S[x]]

\* what delete_session returns
delete_session_returns(S, sid) == sid \in DOMAIN S

\* add_message losing the back-reference of a tool message
add_message_NoId(S, sid, role, content, tool_calls, tool_call_id) ==
    IF sid \notin DOMAIN S THEN S
    ELSE [S EXCEPT ![sid].messages = Append(@, Message(role, content, tool_calls, None))]

\* add_message opening a session for an id it does not know
add_message_AutoCreate(S, sid, role, content, tool_calls, tool_call_id) ==
    LET S0 == IF sid \in DOMAIN S THEN S ELSE create_session(S, sid)
    IN [S0 EXCEPT ![sid].messages = Append(@, Message(role, content, tool_calls, tool_call_id))]

\* add_message putting the new message in front of the log
add_message_Prepend(S, sid, role, content, tool_calls, tool_call_id) ==
    IF sid \notin DOMAIN S THEN S
    ELSE [S EXCEPT ![sid].messages =
              << Message(role, content, tool_calls, tool_call_id) >> \o @]

\* add_message appending to every session's log
add_message_Broadcast(S, sid, role, content, tool_calls, tool_call_id) ==
    IF sid \notin DOMAIN S THEN S
    ELSE [x \in DOMAIN S |->
             [S[x] EXCEPT !.messages =
                  Append(@, Message(role, content, tool_calls, tool_call_id))]]

add_message(S, sid, role, content, tool_calls, tool_call_id) ==
    IF get_session(S, sid) = <<>> THEN S
    ELSE [S EXCEPT ![sid].messages =
              Append(@, Message(role, content, tool_calls, tool_call_id))]

\* what add_message returns: <<>> for None, <<message>> otherwise
add_message_returns(S, sid, role, content, tool_calls, tool_call_id) ==
    IF sid \notin DOMAIN S THEN <<>>
    ELSE << Message(role, content, tool_calls, tool_call_id) >>

get_messages(S, sid) == IF sid \in DOMAIN S THEN S[sid].messages ELSE <<>>

\* Python's messages[-limit:] for a non-zero limit
LastSlice(messages, limit) ==
    LET n == Len(messages)
        from == IF limit > 0 THEN (IF limit >= n THEN 1 ELSE n - limit + 1)
                ELSE (IF -limit >= n THEN n + 1 ELSE -limit + 1)
    IN SubSeq(messages, from, n)

HistoryEntry(msg) ==
    CASE msg.tool_calls # <<>> /\ msg.tool_call_id # None ->
            [role |-> msg.role, content |-> msg.content,
             tool_calls |-> msg.tool_calls, tool_call_id |-> msg.tool_call_id]
      [] msg.tool_calls # <<>> /\ msg.tool_call_id = None ->
            [role |-> msg.role, content |-> msg.content, tool_calls |-> msg.tool_calls]
      [] msg.tool_calls = <<>> /\ msg.tool_call_id # None ->
            [role |-> msg.role, content |-> msg.content, tool_call_id |-> msg.tool_call_id]
      [] OTHER -> [role |-> msg.role, content |-> msg.content]

\* limit is <<>> (not given) or <<n>>
get_conversation_history(S, sid, limit) ==
    LET all == get_messages(S, sid)
        messages == IF limit # <<>> /\ limit[1] # 0 THEN LastSlice(all, limit[1]) ELSE all
    IN [i \in 1..Len(messages) |-> HistoryEntry(messages[i])]

TodoStatuses == {"pending", "in_progress", "completed"}

\* building one Todo raises on a missing content key or an unknown status
TodoOk(t) ==
    /\ "content" \in DOMAIN t
    /\ ("status" \in DOMAIN t => t.status \in TodoStatuses)

Todo(t) ==
    [content |-> t.content,
     status |-> IF "status" \in DOMAIN t THEN t.status ELSE "pending"]

TodoError(todos) ==
    LET i == CHOOSE k \in 1..Len(todos) :
                 ~TodoOk(todos[k]) /\ \A j \in 1..(k-1) : TodoOk(todos[j])
    IN IF "content" \notin DOMAIN todos[i] THEN "'content'"
       ELSE "'" \o todos[i].status \o "' is not a valid TodoStatus"

TodosOk(todos) == \A i \in 1..Len(todos) : TodoOk(todos[i])

\* update_todos adding the new items to the ones already there
update_todos_Merge(S, sid, todos) ==
    IF get_session(S, sid) = <<>> THEN [raised |-> None, S |-> S, returns |-> <<>>]
    ELSE IF ~TodosOk(todos)
    THEN [raised |-> TodoError(todos), S |-> S, returns |-> <<>>]
    ELSE LET new == S[sid].todos \o [i \in 1..Len(todos) |-> Todo(todos[i])]
         IN [raised |-> None, S |-> [S EXCEPT ![sid].todos = new],
             returns |-> << new >>]

\* update_todos storing the items it built before the one that raises
update_todos_Partial(S, sid, todos) ==
    IF get_session(S, sid) = <<>> THEN [raised |-> None, S |-> S, returns |-> <<>>]
    ELSE IF ~TodosOk(todos)
    THEN LET k == CHOOSE i \in 1..Len(todos) :
                      ~TodoOk(todos[i]) /\ \A j \in 1..(i-1) : TodoOk(todos[j])
         IN [raised |-> TodoError(todos),
             S |-> [S EXCEPT ![sid].todos = [i \in 1..(k-1) |-> Todo(todos[i])]],
             returns |-> <<>>]
    ELSE LET new == [i \in 1..Len(todos) |-> Todo(todos[i])]
         IN [raised |-> None, S |-> [S EXCEPT ![sid].todos = new],
             returns |-> << new >>]

\* [raised, S, returns]: the exception update_todos raised, or the store after
\* it and what it returned (<<>> for None, <<list>> for the new todo list)
update_todos(S, sid, todos) ==
    IF get_session(S, sid) = <<>> THEN [raised |-> None, S |-> S, returns |-> <<>>]
    ELSE IF ~TodosOk(todos)
    THEN [raised |-> TodoError(todos), S |-> S, returns |-> <<>>]
    ELSE LET new == [i \in 1..Len(todos) |-> Todo(todos[i])]
         IN [raised |-> None, S |-> [S EXCEPT ![sid].todos = new],
             returns |-> << new >>]

----------------------------------------------------------------------------
(* Tool dispatcher: AgentService._execute_tool, BaseTool.run, TaskTool *)

\* every name the if/elif chain of _execute_tool tests for
RegisteredTools ==
    { "bash", "read_file", "write_file", "edit_file", "glob", "grep",
      "browser_navigate", "browser_click", "browser_type", "browser_screenshot",
      "git_status", "git_commit", "git_create_branch", "git_push", "git_create_pr",
      "web_search", "web_get_contents", "todo_write", "message_user", "think",
      "data_analyst", "deploy", "lsp_tool", "goto_definition", "find_references",
      "hover_symbol", "get_diagnostics", "mcp_tool", "mcp_list_servers",
      "mcp_list_tools", "mcp_call_tool", "github_api", "git_view_pr",
      "git_pr_checks", "git_comment_on_pr", "git_ci_job_logs", "recording_start",
      "recording_stop", "screenshot", "code_validator", "validate_code",
      "lint_code", "type_check", "run_tests", "build_project", "detect_project",
      "syntax_check" }

\* the branches of the chain this model exercises, and two names outside it
ModelledTools == {"bash", "todo_write", "message_user", "deploy"}
UnknownNames == {"not_a_real_tool", "nope"}
ToolNames == ModelledTools \cup UnknownNames

\* args.get(key, default)
Get(args, key, default) == IF key \in DOMAIN args THEN args[key] ELSE default

\* args.pop("operation", ...): the map left behind
PopOperation(args) == [k \in DOMAIN args \ {"operation"} |-> args[k]]

\* BashTool.execute binds command and exec_dir; without them the call raises
BashBindOk(args) == {"command", "exec_dir"} \subseteq DOMAIN args

\* BaseTool.run: the envelope around a handler's payload or exception
RunSuccess(payload) ==
    [success |-> TRUE, result |-> payload, execution_time_ms |-> ElapsedMs]

\* RunFailure dropping the exception's message
RunFailure_NoError(message) ==
    [success |-> FALSE, execution_time_ms |-> ElapsedMs]

\* RunFailure without the time measurement
RunFailure_NoTime(message) == [success |-> FALSE, error |-> message]

RunFailure(message) ==
    [success |-> FALSE, error |-> message, execution_time_ms |-> ElapsedMs]

\* the except clause that closes _execute_tool
CaughtError(message) == [error |-> message]

\* UnknownTool without the name
UnknownTool_NoName(tool_name) == [error |-> "Unknown tool"]

UnknownTool(tool_name) == [error |-> "Unknown tool: " \o tool_name]

\* TaskTool.write_todos through BaseTool.run(operation="write", session_id, **args)
task_write(TT, sid, args) ==
    IF "todos" \notin DOMAIN args
    THEN [TT |-> TT, raised |-> TRUE,
          result |-> RunFailure("TaskTool.write_todos() missing 1 required positional argument: 'todos'")]
    ELSE IF ~TodosOk(args.todos)
    THEN [TT |-> TT, raised |-> FALSE,
          result |-> RunSuccess([error |-> TodoError(args.todos)])]
    ELSE LET new == [i \in 1..Len(args.todos) |-> Todo(args.todos[i])]
         IN [TT |-> [x \in DOMAIN TT \cup {sid} |-> IF x = sid THEN new ELSE TT[x]],
             raised |-> FALSE,
             result |-> RunSuccess([success |-> TRUE, todos |-> new, count |-> Len(new)])]

\* a Todo's id is the timestamp of its creation; update_todo changes the first
\* todo of the list that carries the id it is given. TodoIds[k] stands for the
\* id of a todo that is the first to carry it at place k, UnknownId for an id
\* no todo carries
TodoIds == << "id1", "id2" >>
UnknownId == "id0"

Place(todos, todo_id) ==
    IF \E k \in 1..Len(todos) : k \in DOMAIN TodoIds /\ TodoIds[k] = todo_id
    THEN CHOOSE k \in 1..Len(todos) : k \in DOMAIN TodoIds /\ TodoIds[k] = todo_id
    ELSE 0

\* TaskTool.update_todo through BaseTool.run(operation="update", session_id,
\* todo_id, status, content); None stands for an argument left out
task_update(TT, sid, todo_id, status, content) ==
    LET todos == IF sid \in DOMAIN TT THEN TT[sid] ELSE <<>>
        k == Place(todos, todo_id)
    IN IF k = 0
       THEN [TT |-> TT, raised |-> FALSE,
             result |-> RunSuccess([error |-> "Todo not found: " \o todo_id])]
       ELSE IF status \notin {None, ""} /\ status \notin TodoStatuses
       THEN [TT |-> TT, raised |-> TRUE,
             result |-> RunFailure("'" \o status \o "' is not a valid TodoStatus")]
       ELSE LET todo == [content |-> IF content \in {None, ""} THEN todos[k].content
                                     ELSE content,
                         status |-> IF status \in {None, ""} THEN todos[k].status
                                    ELSE status]
            IN [TT |-> [TT EXCEPT ![sid] = [todos EXCEPT ![k] = todo]],
                raised |-> FALSE,
                result |-> RunSuccess([success |-> TRUE,
                                       todo |-> [id |-> todo_id,
                                                 content |-> todo.content,
                                                 status |-> todo.status]])]

\* the todo_write branch: replace the session's todos, then the tool's own list
todo_write(S, TT, sid, args) ==
    LET u == update_todos(S, sid, Get(args, "todos", <<>>))
        w == task_write(TT, sid, args)
    IN IF u.raised # None
       THEN [result |-> CaughtError(u.raised), S |-> S, TT |-> TT, args |-> args,
             raised |-> TRUE]
       ELSE [result |-> w.result, S |-> u.S, TT |-> w.TT, args |-> args,
             raised |-> w.raised]

\* DeployTool.execute's operation table
DeployOperations ==
    {"frontend", "backend", "logs", "status", "list", "expose", "docker_build",
     "docker_push"}

\* DeployTool.execute(operation, **kwargs) on a tool that has deployed nothing:
\* get_status and list_deployments await nothing and read the empty
\* deployments table; the other operations touch the file system
deploy_execute(operation, kwargs) ==
    CASE operation \notin DeployOperations ->
            [raised |-> FALSE, result |-> [error |-> "Unknown operation: " \o operation]]
      [] operation = "status" /\ "name" \in DOMAIN kwargs ->
            [raised |-> FALSE,
             result |-> [error |-> "Deployment not found: " \o kwargs.name]]
      [] operation = "status" /\ "name" \notin DOMAIN kwargs ->
            [raised |-> TRUE,
             result |-> CaughtError("DeployTool.get_status() missing 1 required positional argument: 'name'")]
      [] operation = "list" ->
            [raised |-> FALSE,
             result |-> [success |-> TRUE, deployments |-> <<>>, count |-> 0]]

\* a call suspends when its handler is entered and awaits the outside world
Suspends(tool_name, args) == tool_name = "bash" /\ BashBindOk(args)

\* the argument map as the handler's branch leaves it
ArgsAtHandler(tool_name, args) ==
    IF tool_name = "deploy" THEN PopOperation(args) ELSE args

\* the deploy branch: pop the operation, call the tool with the rest
deploy(S, TT, sid, args) ==
    LET d == deploy_execute(Get(args, "operation", "status"), PopOperation(args))
    IN [result |-> d.result, S |-> S, TT |-> TT,
        args |-> ArgsAtHandler("deploy", args), raised |-> d.raised]

\* _execute_tool for a call that runs to its result without suspending
execute_tool_sync(S, TT, sid, tool_name, args) ==
    CASE tool_name = "bash" ->
            [result |-> RunFailure("BashTool.execute() missing 2 required positional arguments: 'command' and 'exec_dir'"),
             S |-> S, TT |-> TT, args |-> args, raised |-> TRUE]
      [] tool_name = "todo_write" -> todo_write(S, TT, sid, args)
      [] tool_name = "message_user" ->
            [result |-> [success |-> TRUE, message |-> Get(args, "message", ""),
                         block_on_user |-> Get(args, "block_on_user", FALSE)],
             S |-> S, TT |-> TT, args |-> args, raised |-> FALSE]
      [] tool_name = "deploy" -> deploy(S, TT, sid, args)
      [] OTHER ->
            [result |-> UnknownTool(tool_name), S |-> S, TT |-> TT, args |-> args,
             raised |-> FALSE]

\* _execute_tool's result once the suspended bash handler returns or raises
HandlerResult(tool_name, outcome) ==
    IF outcome = "ok"
    THEN RunSuccess([stdout |-> "out", return_code |-> 0])
    ELSE RunFailure("boom")

\* json.dumps(result, indent=2): the text stored in the tool message
Dumps(result) == [json |-> result]

----------------------------------------------------------------------------
(* Cost tracker: ModelRouter.track_usage *)

Models == {"gpt-3.5-turbo"}
Usages == { [input_tokens |-> 0, output_tokens |-> 0],
            [input_tokens |-> 1000, output_tokens |-> 500] }

\* settings.model_costs, per 1000 tokens, in millionths of a dollar; a cost is
\* kept in billionths of a dollar, which makes tokens x price a whole number
model_costs ==
    "gpt-3.5-turbo" :> [input |-> 500, output |-> 1500]
    @@ "gpt-4-turbo-preview" :> [input |-> 10000, output |-> 30000]
    @@ "gpt-4" :> [input |-> 30000, output |-> 60000]
    @@ "claude-3-haiku-20240307" :> [input |-> 250, output |-> 1250]
    @@ "claude-3-sonnet-20240229" :> [input |-> 3000, output |-> 15000]
    @@ "claude-3-opus-20240229" :> [input |-> 15000, output |-> 75000]

\* TokenUsage(input_tokens, output_tokens, model)
TokenUsage(input_tokens, output_tokens, model) ==
    [input_tokens |-> input_tokens, output_tokens |-> output_tokens, model |-> model]

\* TokenUsage.calculate_cost
calculate_cost(usage) ==
    LET costs == Get(model_costs, usage.model, [input |-> 0, output |-> 0])
    IN usage.input_tokens * costs.input + usage.output_tokens * costs.output

\* SessionCostTracker(session_id=...)
SessionCostTracker(session_id) ==
    [session_id |-> session_id, usage_history |-> <<>>, total_cost |-> 0,
     total_input_tokens |-> 0, total_output_tokens |-> 0]

\* add_usage without its line 69
add_usage_ForgetsOutput(tracker, usage) ==
    [tracker EXCEPT !.usage_history = Append(@, usage),
                    !.total_input_tokens = @ + usage.input_tokens,
                    !.total_cost = @ + calculate_cost(usage)]

\* SessionCostTracker.add_usage
add_usage(tracker, usage) ==
    [tracker EXCEPT !.usage_history = Append(@, usage),
                    !.total_input_tokens = @ + usage.input_tokens,
                    !.total_output_tokens = @ + usage.output_tokens,
                    !.total_cost = @ + calculate_cost(usage)]

\* ModelRouter.track_usage: the trackers afterwards
track_usage(T, sid, model, input_tokens, output_tokens) ==
    LET old == IF sid \in DOMAIN T THEN T[sid] ELSE SessionCostTracker(sid)
        usage == TokenUsage(input_tokens, output_tokens, model)
    IN [x \in DOMAIN T \cup {sid} |-> IF x = sid THEN add_usage(old, usage) ELSE T[x]]

\* chat_completion's bookkeeping when it is given a session id
TrackIfUsed(T, sid, model, usage) ==
    IF usage.input_tokens # 0 \/ usage.output_tokens # 0
    THEN track_usage(T, sid, model, usage.input_tokens, usage.output_tokens)
    ELSE T

\* settings.enable_cost_tracking
enable_cost_tracking == TRUE

\* chat_completion, lines 112-117: session_id is None unless the caller gave one
chat_completion_track(T, session_id, model, usage) ==
    IF session_id # None /\ enable_cost_tracking
    THEN TrackIfUsed(T, session_id, model, usage)
    ELSE T

NoUsage == [input_tokens |-> 0, output_tokens |-> 0]

\* SessionCostTracker.total_requests of a session (0 without a tracker)
TotalRequests(T, sid) == IF sid \in DOMAIN T THEN Len(T[sid].usage_history) ELSE 0

\* round(x, 6) of a cost: the nearest whole millionth; a cost exactly halfway
\* falls as the binary fraction that holds it does, up or down
Round6(cost, tie_up) ==
    LET q == cost \div 1000
        r == cost % 1000
    IN IF r > 500 \/ (r = 500 /\ tie_up) THEN (q + 1) * 1000 ELSE q * 1000

RECURSIVE CostOf(_, _, _)
\* _cost_by_model: the cost of the first n usages that name the model
CostOf(usage_history, model, n) ==
    IF n = 0 THEN 0
    ELSE CostOf(usage_history, model, n - 1)
         + (IF usage_history[n].model = model THEN calculate_cost(usage_history[n])
            ELSE 0)

\* SessionCostTracker._cost_by_model
cost_by_model(tracker, tie_up) ==
    LET h == tracker.usage_history
    IN [model \in { h[k].model : k \in 1..Len(h) } |->
           Round6(CostOf(h, model, Len(h)), tie_up)]

\* SessionCostTracker.get_summary
get_summary(tracker, tie_up) ==
    [session_id |-> tracker.session_id,
     total_cost |-> Round6(tracker.total_cost, tie_up),
     total_input_tokens |-> tracker.total_input_tokens,
     total_output_tokens |-> tracker.total_output_tokens,
     total_requests |-> Len(tracker.usage_history),
     cost_by_model |-> cost_by_model(tracker, tie_up)]

\* get_session_costs creating the tracker it does not find
get_session_costs_trackers_Creates(T, session_id) ==
    [x \in DOMAIN T \cup {session_id} |->
        IF x \in DOMAIN T THEN T[x] ELSE SessionCostTracker(session_id)]

\* ModelRouter.get_session_costs: the trackers afterwards (it assigns nothing)
get_session_costs_trackers(T, session_id) == T

\* ModelRouter.get_session_costs
get_session_costs(T, session_id, tie_up) ==
    IF session_id \notin DOMAIN T
    THEN [session_id |-> session_id, total_cost |-> 0, total_input_tokens |-> 0,
          total_output_tokens |-> 0, total_requests |-> 0, cost_by_model |-> <<>>]
    ELSE get_summary(T[session_id], tie_up)

RECURSIVE SumOver(_, _, _)
\* the sum of one field over the trackers of the given sessions
SumOver(T, ids, field) ==
    IF ids = {} THEN 0
    ELSE LET sid == CHOOSE x \in ids : TRUE
         IN (IF field = "total_requests" THEN Len(T[sid].usage_history)
             ELSE T[sid][field])
            + SumOver(T, ids \ {sid}, field)

\* ModelRouter.get_all_costs
get_all_costs(T, tie_up) ==
    [total_cost |-> Round6(SumOver(T, DOMAIN T, "total_cost"), tie_up),
     total_input_tokens |-> SumOver(T, DOMAIN T, "total_input_tokens"),
     total_output_tokens |-> SumOver(T, DOMAIN T, "total_output_tokens"),
     total_requests |-> SumOver(T, DOMAIN T, "total_requests"),
     sessions |-> Cardinality(DOMAIN T)]

----------------------------------------------------------------------------
(* Model router: ModelRouter.classify_task                                  *)
(* Scores are sums of 1.0, 0.5 and 0.3; they are kept in tenths, and a      *)
(* confidence is kept as the fraction num/den of two such numbers.          *)

\* TaskCategory, in the order of its declaration
TaskCategory ==
    << "simple_query", "file_operation", "code_generation", "code_analysis",
       "debugging", "architecture", "data_analysis", "tool_execution",
       "conversation", "planning" >>

\* self.task_patterns: how many patterns each category has
task_patterns ==
    [simple_query |-> 4, file_operation |-> 3, code_generation |-> 3,
     code_analysis |-> 3, debugging |-> 4, architecture |-> 4,
     data_analysis |-> 4, planning |-> 3]

TenWords == "go go go go go go go go go go "
LongMessage ==
    TenWords \o TenWords \o TenWords \o TenWords \o TenWords \o TenWords
             \o TenWords \o TenWords \o TenWords \o TenWords \o "go"

RouterMessages ==
    { "hello",
      "  Hello there",
      "please tell me something nice about the weather in paris today",
      "debug this error",
      "please fix the bug then refactor it and plot a chart and also plan the work",
      "fix the bug, refactor it, plot a chart, plan the work and look for issues in main.py",
      "refactor and plot everything that we have in the repository right now please",
      "read file notes.txt",
      LongMessage }

\* message.lower().strip()
Lower(message) == IF message = "  Hello there" THEN "hello there" ELSE message

\* the patterns <<category, k>> (k-th of the category) that re.search finds
\* in the lowered message
Searched(message_lower) ==
    CASE message_lower \in {"hello", "hello there"} -> { <<"simple_query", 4>> }
      [] message_lower = "debug this error" -> { <<"debugging", 1>> }
      [] message_lower =
           "please fix the bug then refactor it and plot a chart and also plan the work" ->
           { <<"debugging", 1>>, <<"architecture", 3>>, <<"data_analysis", 2>>,
             <<"planning", 1>> }
      [] message_lower =
           "fix the bug, refactor it, plot a chart, plan the work and look for issues in main.py" ->
           { <<"file_operation", 3>>, <<"code_analysis", 3>>, <<"debugging", 1>>,
             <<"architecture", 3>>, <<"data_analysis", 2>>, <<"planning", 1>> }
      [] message_lower =
           "refactor and plot everything that we have in the repository right now please" ->
           { <<"architecture", 3>>, <<"data_analysis", 2>> }
      [] message_lower = "read file notes.txt" ->
           { <<"file_operation", 1>>, <<"file_operation", 3>> }
      [] OTHER -> {}

\* len(message.split())
message_length(message) ==
    CASE message = "hello" -> 1
      [] message = "  Hello there" -> 2
      [] message = "please tell me something nice about the weather in paris today" -> 11
      [] message = "debug this error" -> 3
      [] message =
           "please fix the bug then refactor it and plot a chart and also plan the work" -> 16
      [] message =
           "fix the bug, refactor it, plot a chart, plan the work and look for issues in main.py" -> 17
      [] message =
           "refactor and plot everything that we have in the repository right now please" -> 13
      [] message = "read file notes.txt" -> 3
      [] OTHER -> 101

\* the context argument: None, or a map with the four keys classify_task reads
NoContext == [k \in {} |-> TRUE]
Contexts ==
    {NoContext} \cup
    [has_code_context : BOOLEAN, has_error : BOOLEAN, is_followup : BOOLEAN,
     tool_calls : BOOLEAN]

\* lines 163-167: one point for every pattern of the category that matches
PatternScore(category, message_lower) ==
    IF category \in DOMAIN task_patterns
    THEN 10 * Cardinality({ k \in 1..task_patterns[category] :
                               <<category, k>> \in Searched(message_lower) })
    ELSE 0

\* lines 169-181: what the context adds to a category
ContextScore(category, context) ==
    IF DOMAIN context = {} THEN 0
    ELSE (IF Get(context, "has_code_context", FALSE) /\ category = "code_analysis"
          THEN 5 ELSE 0)
       + (IF Get(context, "has_code_context", FALSE) /\ category = "code_generation"
          THEN 3 ELSE 0)
       + (IF Get(context, "has_error", FALSE) /\ category = "debugging"
          THEN 10 ELSE 0)
       + (IF Get(context, "is_followup", FALSE) /\ category = "conversation"
          THEN 5 ELSE 0)
       + (IF Get(context, "tool_calls", FALSE) /\ category = "tool_execution"
          THEN 5 ELSE 0)

\* lines 183-188: what the number of words adds to a category
LengthScore(category, length) ==
    IF length > 100
    THEN (IF category \in {"architecture", "planning"} THEN 3 ELSE 0)
    ELSE IF length < 10
    THEN (IF category = "simple_query" THEN 5 ELSE 0)
    ELSE 0

\* the scores dictionary at line 190, by position in TaskCategory
Scores(message, context) ==
    LET scores == [i \in 1..Len(TaskCategory) |->
                      PatternScore(TaskCategory[i], Lower(message))
                      + ContextScore(TaskCategory[i], context)
                      + LengthScore(TaskCategory[i], message_length(message))]
    IN SubSeq(scores, 1, Len(TaskCategory))

\* MaxKey keeping the last of the keys that share the highest score
MaxKey_Last(scores) ==
    CHOOSE i \in DOMAIN scores :
        /\ \A j \in DOMAIN scores : scores[j] <= scores[i]
        /\ \A j \in DOMAIN scores : j > i => scores[j] < scores[i]

\* max(scores, key=...): the first key, in the dictionary's order, whose
\* score no other key exceeds
MaxKey(scores) ==
    CHOOSE i \in DOMAIN scores :
        /\ \A j \in DOMAIN scores : scores[j] <= scores[i]
        /\ \A j \in DOMAIN scores : j < i => scores[j] < scores[i]

RECURSIVE SumTo(_, _)
\* sum(scores.values()), over the first n entries
SumTo(scores, n) == IF n = 0 THEN 0 ELSE SumTo(scores, n - 1) + scores[n]

\* line 191 with the sum itself as divisor whenever it is not zero
Confidence_PlainSum(scores) ==
    LET total == SumTo(scores, Len(scores))
    IN [num |-> scores[MaxKey(scores)], den |-> IF total > 0 THEN total ELSE 10]

\* line 191: scores[best_category] / max(sum(scores.values()), 1.0)
Confidence(scores) ==
    LET total == SumTo(scores, Len(scores))
    IN [num |-> scores[MaxKey(scores)], den |-> IF total > 10 THEN total ELSE 10]

\* confidence < 0.3
BelowThreshold(confidence) == 10 * confidence.num < 3 * confidence.den

\* classify_task without its lines 193-194
classify_task_NoFallback(message, context) ==
    LET scores == Scores(message, context)
    IN [category |-> TaskCategory[MaxKey(scores)], confidence |-> Confidence(scores)]

\* classify_task(message, context) -> (category, confidence)
classify_task(message, context) ==
    LET scores == Scores(message, context)
        best_category == TaskCategory[MaxKey(scores)]
        confidence == Confidence(scores)
    IN [category |-> IF BelowThreshold(confidence) THEN "conversation"
                     ELSE best_category,
        confidence |-> confidence]

----------------------------------------------------------------------------
(* Model router: ModelRouter.select_model *)

ModelTier == {"fast", "standard", "premium"}

\* self.category_to_tier
category_to_tier ==
    [simple_query |-> "fast", file_operation |-> "fast", tool_execution |-> "fast",
     conversation |-> "fast", code_analysis |-> "standard",
     code_generation |-> "standard", data_analysis |-> "standard",
     debugging |-> "premium", architecture |-> "premium", planning |-> "standard"]

\* confidence < 0.5
BelowHalf(confidence) == 10 * confidence.num < 5 * confidence.den

\* lines 211-214 escalating whatever the default tier is
DerivedTier_EscalateAny(category, confidence) ==
    LET tier == Get(category_to_tier, category, "standard")
    IN IF BelowHalf(confidence)
       THEN (IF tier = "fast" THEN "standard" ELSE "premium")
       ELSE tier

\* lines 211-214 without the escalation
DerivedTier_NoEscalation(category, confidence) ==
    Get(category_to_tier, category, "standard")

\* lines 211-214: the tier when force_tier is not given
DerivedTier(category, confidence) ==
    LET tier == Get(category_to_tier, category, "standard")
    IN IF BelowHalf(confidence) /\ tier = "fast" THEN "standard" ELSE tier

\* lines 208-214, ignoring force_tier
SelectTier_IgnoreForce(force_tier, category, confidence) ==
    DerivedTier(category, confidence)

\* lines 208-214
SelectTier(force_tier, category, confidence) ==
    IF force_tier # None THEN force_tier ELSE DerivedTier(category, confidence)

\* settings.openai_api_key and settings.anthropic_api_key, each None or a key
ApiKeys == [openai_api_key : {None, "sk-o"}, anthropic_api_key : {None, "sk-a"}]
NoKeys == [openai_api_key |-> None, anthropic_api_key |-> None]

\* lines 216-223 looking for the Anthropic key first
ResolveProvider_AnthropicFirst(prefer_provider, keys) ==
    IF prefer_provider \notin {None, ""} THEN prefer_provider
    ELSE IF keys.anthropic_api_key \notin {None, ""} THEN "anthropic"
    ELSE IF keys.openai_api_key \notin {None, ""} THEN "openai"
    ELSE "openai"

\* lines 216-223: prefer_provider is None, "" or a name
ResolveProvider(prefer_provider, keys) ==
    IF prefer_provider \notin {None, ""} THEN prefer_provider
    ELSE IF keys.openai_api_key \notin {None, ""} THEN "openai"
    ELSE IF keys.anthropic_api_key \notin {None, ""} THEN "anthropic"
    ELSE "openai"

\* _get_model_for_tier with the default settings
get_model_for_tier(tier, provider) ==
    IF provider = "openai"
    THEN (IF tier = "fast" THEN "gpt-3.5-turbo"
          ELSE IF tier = "standard" THEN "gpt-4-turbo-preview"
          ELSE "gpt-4")
    ELSE (IF tier = "fast" THEN "claude-3-haiku-20240307"
          ELSE IF tier = "standard" THEN "claude-3-sonnet-20240229"
          ELSE "claude-3-opus-20240229")

\* select_model(message, context, force_tier, prefer_provider) -> (model, tier,
\* category), under the given settings
select_model(message, context, force_tier, prefer_provider, keys) ==
    LET c == classify_task(message, context)
        tier == SelectTier(force_tier, c.category, c.confidence)
        provider == ResolveProvider(prefer_provider, keys)
    IN [model |-> get_model_for_tier(tier, provider), tier |-> tier,
        category |-> c.category]

\* ModelRouter.estimate_cost(message, estimated_output_tokens); the estimated
\* input tokens, 1.3 per word, are counted in tenths
estimate_cost(message, estimated_output_tokens, keys, tie_up) ==
    LET s == select_model(message, NoContext, None, None, keys)
        input_tenths == 13 * message_length(message)
        costs == Get(model_costs, s.model, [input |-> 0, output |-> 0])
        estimated_cost == (input_tenths * costs.input) \div 10
                          + estimated_output_tokens * costs.output
    IN [model |-> s.model, tier |-> s.tier, category |-> s.category,
        estimated_input_tokens |-> input_tenths \div 10,
        estimated_output_tokens |-> estimated_output_tokens,
        estimated_cost |-> Round6(estimated_cost, tie_up)]

----------------------------------------------------------------------------
(* Agent loop: AgentService.process_message *)

IdleInv ==
    [session_id |-> None, max_iterations |-> 0, iterations |-> 0,
     history |-> <<>>, tool_results |-> <<>>, tool_calls |-> <<>>,
     idx |-> 0, args |-> <<>>, result |-> <<>>]

\* one thing an invocation did; at is the log position an append landed on
\* (0 when the session was gone), calls the tool calls of an assistant reply,
\* tokens the usage that came with the reply, failed whether the provider
\* call behind it raised, tracked the size of the session's tracker when the
\* invocation began
Ev(kind, id, at, calls) ==
    [e |-> kind, id |-> id, at |-> at, calls |-> calls, raised |-> FALSE,
     tokens |-> 0, tracked |-> 0, failed |-> FALSE]

\* where an append by add_message landed
LandedAt(S, S2, sid) == IF S2 # S THEN Len(S2[sid].messages) ELSE 0

\* MaxIterationsResult handing back an empty trace
MaxIterationsResult_NoTrace(l) ==
    [message |-> "Max iterations reached", tool_results |-> <<>>,
     iterations |-> l.iterations]

MaxIterationsResult(l) ==
    [message |-> "Max iterations reached", tool_results |-> l.tool_results,
     iterations |-> l.iterations]

\* DoneResult forgetting the trace
DoneResult_NoTrace(l, response) ==
    [message |-> response.content, tool_results |-> <<>>,
     iterations |-> l.iterations]

DoneResult(l, response) ==
    [message |-> response.content, tool_results |-> l.tool_results,
     iterations |-> l.iterations]

\* LoopHead with the while test off by one
LoopHead_OffByOne(l) ==
    IF l.iterations <= l.max_iterations
    THEN [pc |-> "llm", l |-> [l EXCEPT !.iterations = @ + 1],
          ev |-> << Ev("request", None, 0, <<>>) >>]
    ELSE [pc |-> "returned", l |-> [l EXCEPT !.result = MaxIterationsResult(l)],
          ev |-> << Ev("return", None, 0, <<>>) >>]

\* LoopHead never coming back once the bound is used up
LoopHead_Hangs(l) ==
    IF l.iterations < l.max_iterations
    THEN [pc |-> "llm", l |-> [l EXCEPT !.iterations = @ + 1],
          ev |-> << Ev("request", None, 0, <<>>) >>]
    ELSE [pc |-> "hung", l |-> l, ev |-> <<>>]

\* LoopHead making its first pass whatever the bound
LoopHead_AtLeastOnce(l) ==
    IF l.iterations < l.max_iterations \/ l.iterations = 0
    THEN [pc |-> "llm", l |-> [l EXCEPT !.iterations = @ + 1],
          ev |-> << Ev("request", None, 0, <<>>) >>]
    ELSE [pc |-> "returned", l |-> [l EXCEPT !.result = MaxIterationsResult(l)],
          ev |-> << Ev("return", None, 0, <<>>) >>]

\* the while test and what follows it: the next completion request, or the
\* max-iterations return
LoopHead(l) ==
    IF l.iterations < l.max_iterations
    THEN [pc |-> "llm", l |-> [l EXCEPT !.iterations = @ + 1],
          ev |-> << Ev("request", None, 0, <<>>) >>]
    ELSE [pc |-> "returned", l |-> [l EXCEPT !.result = MaxIterationsResult(l)],
          ev |-> << Ev("return", None, 0, <<>>) >>]

\* StartStep answering a missing session with a not-found result
StartStep_NotFound(S, sid, text, max_iterations) ==
    LET S1 == add_message(S, sid, "user", text, <<>>, None)
        l0 == [IdleInv EXCEPT !.session_id = sid,
                              !.max_iterations = max_iterations,
                              !.history = get_conversation_history(S1, sid, <<>>)]
        h == LoopHead(l0)
    IN IF get_session(S, sid) = <<>>
       THEN [S |-> S, pc |-> "returned",
             l |-> [l0 EXCEPT !.result = [error |-> "Session not found"]],
             ev |-> << Ev("user", None, 0, <<>>), Ev("return", None, 0, <<>>) >>]
       ELSE [S |-> S1, pc |-> h.pc, l |-> h.l,
             ev |-> << Ev("user", None, LandedAt(S, S1, sid), <<>>) >> \o h.ev]

\* lines 65-77: append the user message, read the history, enter the loop
StartStep(S, sid, text, max_iterations) ==
    LET S1 == add_message(S, sid, "user", text, <<>>, None)
        l0 == [IdleInv EXCEPT !.session_id = sid,
                              !.max_iterations = max_iterations,
                              !.history = get_conversation_history(S1, sid, <<>>)]
        h == LoopHead(l0)
    IN [S |-> S1, pc |-> h.pc, l |-> h.l,
        ev |-> << Ev("user", None, LandedAt(S, S1, sid), <<>>) >> \o h.ev]

\* ResponseStep returning the final reply without appending it
ResponseStep_NoFinalAppend(S, l, response) ==
    LET S1 == add_message(S, l.session_id, "assistant", response.content,
                          response.tool_calls, None)
    IN IF response.tool_calls = <<>>
       THEN [S |-> S, pc |-> "returned",
             l |-> [l EXCEPT !.result = DoneResult(l, response)],
             ev |-> << Ev("assistant", None, 0, <<>>), Ev("return", None, 0, <<>>) >>]
       ELSE [S |-> S1, pc |-> "tools",
             l |-> [l EXCEPT !.tool_calls = response.tool_calls, !.idx = 1],
             ev |-> << Ev("assistant", None, LandedAt(S, S1, l.session_id),
                          response.tool_calls) >>]

\* lines 79-95: append the assistant message; return it or start on its calls
ResponseStep(S, l, response) ==
    LET S1 == add_message(S, l.session_id, "assistant", response.content,
                          response.tool_calls, None)
        ev == Ev("assistant", None, LandedAt(S, S1, l.session_id), response.tool_calls)
    IN IF response.tool_calls = <<>>
       THEN [S |-> S1, pc |-> "returned",
             l |-> [l EXCEPT !.result = DoneResult(l, response)],
             ev |-> << ev, Ev("return", None, 0, <<>>) >>]
       ELSE [S |-> S1, pc |-> "tools",
             l |-> [l EXCEPT !.tool_calls = response.tool_calls, !.idx = 1],
             ev |-> << ev >>]

\* CurrentCall walking the list from its end
CurrentCall_Reversed(l) == l.tool_calls[Len(l.tool_calls) - l.idx + 1]

\* lines 99-103: the call at hand, its name and its parsed arguments
CurrentCall(l) == l.tool_calls[l.idx]

\* ParseArgs handing on the text it could not parse
ParseArgs_KeepsText(tool_call) ==
    LET parsed == JsonLoads(tool_call.function.arguments)
    IN IF parsed.ok THEN parsed.value ELSE [raw |-> tool_call.function.arguments]

ParseArgs(tool_call) ==
    LET parsed == JsonLoads(tool_call.function.arguments)
    IN IF parsed.ok THEN parsed.value ELSE <<>>

\* AfterTool leaving the round after its first call
AfterTool_StopAfterFirst(S, l, args, result, raised) ==
    LET tc == CurrentCall(l)
        S1 == add_message(S, l.session_id, "tool", Dumps(result), <<>>, tc.id)
        l1 == [l EXCEPT !.tool_results =
                   Append(@, [tool |-> tc.function.name, args |-> args,
                              result |-> result]),
                        !.args = <<>>]
        ev == [Ev("tool_msg", tc.id, LandedAt(S, S1, l.session_id), <<>>)
                 EXCEPT !.raised = raised]
        h == LoopHead([l1 EXCEPT !.history =
                          get_conversation_history(S1, l.session_id, <<>>)])
    IN [S |-> S1, pc |-> h.pc, l |-> h.l, ev |-> << ev >> \o h.ev]

\* lines 107-125: record the result in the trace and in the log, then take
\* the next call, or refresh the history and go round the loop
AfterTool(S, l, args, result, raised) ==
    LET tc == CurrentCall(l)
        S1 == add_message(S, l.session_id, "tool", Dumps(result), <<>>, tc.id)
        l1 == [l EXCEPT !.tool_results =
                   Append(@, [tool |-> tc.function.name, args |-> args,
                              result |-> result]),
                        !.args = <<>>]
        ev == [Ev("tool_msg", tc.id, LandedAt(S, S1, l.session_id), <<>>)
                 EXCEPT !.raised = raised]
    IN IF l.idx < Len(l.tool_calls)
       THEN [S |-> S1, pc |-> "tools", l |-> [l1 EXCEPT !.idx = @ + 1], ev |-> << ev >>]
       ELSE LET h == LoopHead([l1 EXCEPT !.history =
                                  get_conversation_history(S1, l.session_id, <<>>)])
            IN [S |-> S1, pc |-> h.pc, l |-> h.l, ev |-> << ev >> \o h.ev]

----------------------------------------------------------------------------
(* Initial state: the services as routes.py constructs them *)

IdleAdv == [pc |-> "idle", session_id |-> None, history |-> <<>>]
IdleReq == [pc |-> "idle", session_id |-> None, tool_name |-> None, args |-> <<>>]

Init ==
    /\ sessions = <<>>
    /\ used_ids = {}
    /\ task_todos = <<>>
    /\ session_trackers = <<>>
    /\ pc = [p \in Procs |-> "idle"]
    /\ inv = [p \in Procs |-> IdleInv]
    /\ running = None
    /\ adv = IdleAdv
    /\ api_call = <<>>
    /\ tool_req = IdleReq
    /\ task_call = <<>>
    /\ events = [p \in Procs |-> <<>>]
    /\ pm_overlap = {}
    /\ chat_overlap = {}
    /\ store_call = [op |-> "none", sid |-> None, found |-> FALSE, raised |-> FALSE,
                     returns |-> <<>>]
    /\ router_call = [op |-> "none"]

----------------------------------------------------------------------------
(* Store and tool endpoints: each runs to completion without suspending *)

\* uuid4 never repeats an id: the ids come out in a fixed order
NextId(used) == IF "s1" \notin used THEN "s1" ELSE IF "s2" \notin used THEN "s2" ELSE None

\* POST /sessions
CreateSession(sid) ==
    /\ running = None
    /\ sid = NextId(used_ids)
    /\ sessions' = create_session(sessions, sid)
    /\ used_ids' = used_ids \cup {sid}
    /\ UNCHANGED <<task_todos, session_trackers, pc, inv, running, adv,
                   api_call, tool_req, task_call, events,
                   pm_overlap, chat_overlap>>
    /\ UNCHANGED <<store_call, router_call>>

\* DELETE /sessions/{id}
DeleteSession(sid) ==
    /\ running = None
    /\ sid \in DOMAIN sessions
    /\ sessions' = delete_session(sessions, sid)
    /\ UNCHANGED <<used_ids, task_todos, session_trackers, pc, inv, running,
                   adv, api_call, tool_req, task_call, events,
                   pm_overlap, chat_overlap>>
    /\ UNCHANGED <<store_call, router_call>>

TodoLists ==
    { <<>>,
      << [content |-> "plan", status |-> "in_progress"], [content |-> "code"] >>,
      << [content |-> "plan"], [status |-> "pending"] >> }

\* PUT /sessions/{id}/todos
UpdateTodos(sid, todos) ==
    /\ running = None
    /\ sid \in DOMAIN sessions
    /\ sessions' = update_todos(sessions, sid, todos).S
    /\ UNCHANGED <<used_ids, task_todos, session_trackers, pc, inv, running,
                   adv, api_call, tool_req, task_call, events,
                   pm_overlap, chat_overlap>>
    /\ UNCHANGED <<store_call, router_call>>

\* the calls the tool endpoint receives: a name and an argument map
DirectCalls ==
    { <<"bash", JsonLoads(BashArgs).value>>,
      <<"bash", JsonLoads(EmptyArgs).value>>,
      <<"deploy", JsonLoads(DeployArgs).value>>,
      <<"deploy", JsonLoads(EmptyArgs).value>>,
      <<"deploy", [operation |-> "list"]>>,
      <<"deploy", [operation |-> "rollback"]>>,
      <<"todo_write", JsonLoads(TodoArgs).value>>,
      <<"todo_write", JsonLoads(BadTodoArgs).value>>,
      <<"todo_write", JsonLoads(EmptyArgs).value>>,
      <<"message_user", JsonLoads(UserMsgArgs).value>>,
      <<"not_a_real_tool", JsonLoads(EmptyArgs).value>>,
      <<"nope", JsonLoads(BashArgs).value>> }

\* _execute_tool as one call: its result and what it leaves behind
execute_tool(S, TT, sid, tool_name, args, outcome) ==
    IF Suspends(tool_name, args)
    THEN [result |-> HandlerResult(tool_name, outcome), S |-> S, TT |-> TT,
          args |-> ArgsAtHandler(tool_name, args), raised |-> outcome = "raise"]
    ELSE execute_tool_sync(S, TT, sid, tool_name, args)

\* a tool request entering _execute_tool: a call that awaits its handler is
\* left waiting, any other call runs to its result
ToolRequest(sid, tool_name, args) ==
    /\ running = None
    /\ tool_req.pc = "idle"
    /\ IF Suspends(tool_name, args)
       THEN /\ tool_req' = [pc |-> "wait", session_id |-> sid,
                            tool_name |-> tool_name, args |-> args]
            /\ UNCHANGED <<sessions, task_todos, api_call>>
       ELSE /\ \E x \in {execute_tool_sync(sessions, task_todos, sid, tool_name, args)} :
                 /\ sessions' = x.S
                 /\ task_todos' = x.TT
                 /\ api_call' = [tool_name |-> tool_name, args |-> args,
                                 result |-> x.result]
            /\ UNCHANGED tool_req
    /\ UNCHANGED <<used_ids, session_trackers, pc, inv, running, adv, events,
                   pm_overlap, chat_overlap>>
    /\ UNCHANGED <<task_call, store_call, router_call>>

\* POST /sessions/{id}/tools/execute: 404 unless the session exists
DirectTool(sid, tool_name, args) ==
    /\ sid \in DOMAIN sessions
    /\ ToolRequest(sid, tool_name, args)

\* the websocket's "tool" request: the session was looked up when the socket
\* was accepted and is not looked up again
WebsocketTool(sid, tool_name, args) ==
    /\ sid \in used_ids
    /\ ToolRequest(sid, tool_name, args)

\* the awaited handler of a tool request returns or raises
DirectToolReturn(outcome) ==
    /\ running = None
    /\ tool_req.pc = "wait"
    /\ api_call' = [tool_name |-> tool_req.tool_name, args |-> tool_req.args,
                    result |-> HandlerResult(tool_req.tool_name, outcome)]
    /\ tool_req' = IdleReq
    /\ UNCHANGED <<sessions, used_ids, task_todos, session_trackers, pc, inv, running,
                   adv, events, pm_overlap, chat_overlap>>
    /\ UNCHANGED <<task_call, store_call, router_call>>

\* the arguments TaskTool.run(operation="update", ...) is called with
UpdateIds == { TodoIds[1], TodoIds[2], UnknownId }
UpdateStatuses == { None, "completed", "done" }
UpdateContents == { None, "ship" }

\* TaskTool.run(operation="update", session_id, todo_id, status, content),
\* called on the task tool itself
TaskUpdate(sid, todo_id, status, content) ==
    /\ running = None
    /\ \E x \in {task_update(task_todos, sid, todo_id, status, content)} :
          /\ task_todos' = x.TT
          /\ task_call' = [op |-> "update", sid |-> sid, todo_id |-> todo_id,
                           raised |-> x.raised, result |-> x.result]
    /\ UNCHANGED <<sessions, used_ids, session_trackers, pc, inv, running, adv,
                   api_call, tool_req, events, pm_overlap, chat_overlap>>
    /\ UNCHANGED <<store_call, router_call>>

----------------------------------------------------------------------------
(* The store's operations called with any id, known or not *)

StoreFrame ==
    UNCHANGED <<used_ids, task_todos, session_trackers, pc, inv, running, adv,
                api_call, tool_req, task_call, router_call, events, pm_overlap, chat_overlap>>

StoreGet(sid) ==
    /\ running = None
    /\ store_call' = [op |-> "get", sid |-> sid, found |-> sid \in DOMAIN sessions,
                      raised |-> FALSE,
                      returns |-> get_session(sessions, sid)]
    /\ UNCHANGED sessions
    /\ StoreFrame

StoreDelete(sid) ==
    /\ running = None
    /\ store_call' = [op |-> "delete", sid |-> sid, found |-> sid \in DOMAIN sessions,
                      raised |-> FALSE,
                      returns |-> delete_session_returns(sessions, sid)]
    /\ sessions' = delete_session(sessions, sid)
    /\ StoreFrame

StoreRoles == {"user"}
StoreTexts == {"hello", "and then?"}

\* add_message(session_id, role, content, tool_calls, tool_call_id)
StoreAppendWith(sid, role, content, tool_calls, tool_call_id) ==
    /\ running = None
    /\ Len(get_messages(sessions, sid)) < MaxLog
    /\ store_call' = [op |-> "append", sid |-> sid, found |-> sid \in DOMAIN sessions,
                      raised |-> FALSE,
                      returns |-> add_message_returns(sessions, sid, role, content,
                                                      tool_calls, tool_call_id)]
    /\ sessions' = add_message(sessions, sid, role, content, tool_calls, tool_call_id)
    /\ StoreFrame

\* add_message(session_id, role, content)
StoreAppend(sid, role, content) == StoreAppendWith(sid, role, content, <<>>, None)

\* MessageRole, and what a caller may hand to add_message with it
MessageRole == {"user", "assistant", "system", "tool"}
AnyToolCalls == { <<>>, << ToolCall("c1", "bash", BashArgs) >> }
AnyToolCallIds == {None, "c1"}

StoreTodoLists ==
    TodoLists \cup { << [content |-> "ship", status |-> "completed"] >> }

StoreReplaceTodos(sid, todos) ==
    /\ running = None
    /\ \E u \in {update_todos(sessions, sid, todos)} :
          /\ store_call' = [op |-> "replace_todos", sid |-> sid,
                            found |-> sid \in DOMAIN sessions, todos |-> todos,
                            raised |-> u.raised # None, returns |-> u.returns]
          /\ sessions' = u.S
    /\ StoreFrame

Limits == { <<>> } \cup { << n >> : n \in 0..MaxLimit }

StoreHistory(sid, limit) ==
    /\ running = None
    /\ store_call' = [op |-> "history", sid |-> sid, found |-> sid \in DOMAIN sessions,
                      limit |-> limit, raised |-> FALSE,
                      returns |-> get_conversation_history(sessions, sid, limit)]
    /\ UNCHANGED sessions
    /\ StoreFrame

----------------------------------------------------------------------------
(* The model router called on its own *)

\* model_router.classify_task(message, context)
ClassifyTask(message, context) ==
    /\ running = None
    /\ router_call' = [op |-> "classify", message |-> message, context |-> context,
                       scores |-> Scores(message, context),
                       returns |-> classify_task(message, context)]
    /\ UNCHANGED <<sessions, used_ids, task_todos, session_trackers, pc, inv, running,
                   adv, api_call, tool_req, task_call, store_call, events, pm_overlap, chat_overlap>>

\* model_router.select_model(message, context, force_tier, prefer_provider)
SelectModel(message, context, force_tier, prefer_provider, keys) ==
    /\ running = None
    /\ router_call' = [op |-> "select", message |-> message, context |-> context,
                       force_tier |-> force_tier, prefer_provider |-> prefer_provider,
                       keys |-> keys,
                       classified |-> classify_task(message, context),
                       returns |-> select_model(message, context, force_tier,
                                                prefer_provider, keys)]
    /\ UNCHANGED <<sessions, used_ids, task_todos, session_trackers, pc, inv, running,
                   adv, api_call, tool_req, task_call, store_call, events, pm_overlap, chat_overlap>>

RouterFrame ==
    UNCHANGED <<sessions, used_ids, task_todos, pc, inv, running, adv, api_call, tool_req, task_call,
                store_call, events, pm_overlap, chat_overlap>>

\* the usages the router is asked to record: <<model, input, output>>
CostUsages ==
    { <<"gpt-3.5-turbo", 1000, 500>>, <<"claude-3-haiku-20240307", 1, 0>>,
      <<"my-model", 1000, 500>> }

\* model_router.track_usage(session_id, model, input_tokens, output_tokens)
TrackUsage(sid, model, input_tokens, output_tokens) ==
    /\ running = None
    /\ TotalRequests(session_trackers, sid) < MaxUsage
    /\ session_trackers' = track_usage(session_trackers, sid, model, input_tokens,
                                       output_tokens)
    /\ router_call' = [op |-> "track_usage", sid |-> sid,
                       before |-> session_trackers, raised |-> FALSE,
                       returns |-> TokenUsage(input_tokens, output_tokens, model)]
    /\ RouterFrame

\* model_router.get_session_costs(session_id)
GetSessionCosts(sid, tie_up) ==
    /\ running = None
    /\ router_call' = [op |-> "session_costs", sid |-> sid,
                       returns |-> get_session_costs(session_trackers, sid, tie_up)]
    /\ session_trackers' = get_session_costs_trackers(session_trackers, sid)
    /\ RouterFrame

\* model_router.get_all_costs()
GetAllCosts(tie_up) ==
    /\ running = None
    /\ router_call' = [op |-> "all_costs",
                       returns |-> get_all_costs(session_trackers, tie_up)]
    /\ UNCHANGED session_trackers
    /\ RouterFrame

\* model_router.estimate_cost(message, estimated_output_tokens)
EstimateCost(message, estimated_output_tokens, keys, tie_up) ==
    /\ running = None
    /\ router_call' = [op |-> "estimate_cost", message |-> message,
                       returns |-> estimate_cost(message, estimated_output_tokens,
                                                 keys, tie_up)]
    /\ UNCHANGED session_trackers
    /\ RouterFrame

----------------------------------------------------------------------------
(* process_message, one action per stretch between two suspensions *)

\* requests already in flight on a session when another one arrives
PmInFlight(sid) == \E q \in Procs : pc[q] \in {"llm", "tool_wait"} /\ inv[q].session_id = sid
AdvInFlight(sid) == adv.pc = "llm" /\ adv.session_id = sid

\* a caller enters process_message
ProcessMessage(p, sid, text, max_iterations) ==
    /\ running = None
    /\ pc[p] = "idle"
    /\ \A q \in Earlier(p) : pc[q] # "idle"
    /\ Len(get_messages(sessions, sid)) <= MaxLog
    /\ sid \in used_ids
    /\ LET x == StartStep(sessions, sid, text, max_iterations)
       IN /\ sessions' = x.S
          /\ pc' = [pc EXCEPT ![p] = x.pc]
          /\ inv' = [inv EXCEPT ![p] = x.l]
          /\ events' = [events EXCEPT ![p] =
                 << [x.ev[1] EXCEPT !.tracked = TotalRequests(session_trackers, sid)] >>
                     \o Tail(x.ev)]
    /\ pm_overlap' = IF PmInFlight(sid) THEN pm_overlap \cup {sid} ELSE pm_overlap
    /\ chat_overlap' = IF PmInFlight(sid) \/ AdvInFlight(sid)
                       THEN chat_overlap \cup {sid} ELSE chat_overlap
    /\ UNCHANGED <<used_ids, task_todos, session_trackers, running, adv, api_call, tool_req, task_call>>
    /\ UNCHANGED <<store_call, router_call>>

\* chat_completion(history) returns: process_message gives it no session id
Reply(p, response, model, usage, failed) ==
    /\ running = None
    /\ pc[p] = "llm"
    /\ session_trackers' = chat_completion_track(session_trackers, None, model, usage)
    /\ \E x \in {ResponseStep(sessions, inv[p], response)} :
          /\ sessions' = x.S
          /\ pc' = [pc EXCEPT ![p] = x.pc]
          /\ inv' = [inv EXCEPT ![p] = x.l]
          /\ events' = [events EXCEPT ![p] =
                 @ \o << [x.ev[1] EXCEPT !.tokens =
                              usage.input_tokens + usage.output_tokens,
                                         !.failed = failed] >>
                   \o Tail(x.ev)]
          /\ running' = IF x.pc = "tools" THEN p ELSE None
    /\ UNCHANGED <<used_ids, task_todos, adv, api_call, tool_req, task_call, pm_overlap,
                   chat_overlap>>
    /\ UNCHANGED <<store_call, router_call>>

\* the provider answered
Completion(p, response, model, usage) == Reply(p, response, model, usage, FALSE)

\* the provider call raised inside _openai_completion / _anthropic_completion
CompletionFailure(p, message, model) ==
    Reply(p, ProviderFailure(message), model, NoUsage, TRUE)

\* the for loop reaches a call: it runs to its result, or its handler suspends
Dispatch(p) ==
    /\ running = p
    /\ pc[p] = "tools"
    /\ LET l == inv[p]
           tc == CurrentCall(l)
           tool_name == tc.function.name
           args == ParseArgs(tc)
           invoked == Ev("invoke", tc.id, 0, <<>>)
       IN IF Suspends(tool_name, args)
          THEN /\ pc' = [pc EXCEPT ![p] = "tool_wait"]
               /\ inv' = [inv EXCEPT ![p].args = ArgsAtHandler(tool_name, args)]
               /\ events' = [events EXCEPT ![p] = Append(@, invoked)]
               /\ running' = None
               /\ UNCHANGED <<sessions, task_todos>>
          ELSE \E r \in {execute_tool_sync(sessions, task_todos, l.session_id,
                                             tool_name, args)} :
               \E x \in {AfterTool(r.S, l, r.args, r.result, r.raised)} :
                  /\ sessions' = x.S
                  /\ task_todos' = r.TT
                  /\ pc' = [pc EXCEPT ![p] = x.pc]
                  /\ inv' = [inv EXCEPT ![p] = x.l]
                  /\ events' = [events EXCEPT ![p] = Append(@, invoked) \o x.ev]
                  /\ running' = IF x.pc = "tools" THEN p ELSE None
    /\ UNCHANGED <<used_ids, session_trackers, adv, api_call, tool_req, task_call, pm_overlap,
                   chat_overlap>>
    /\ UNCHANGED <<store_call, router_call>>

\* a suspended handler returns or raises
HandlerReturn(p, outcome) ==
    /\ running = None
    /\ pc[p] = "tool_wait"
    /\ \E x \in {AfterTool(sessions, inv[p], inv[p].args,
                             HandlerResult(CurrentCall(inv[p]).function.name, outcome),
                             outcome = "raise")} :
          /\ sessions' = x.S
          /\ pc' = [pc EXCEPT ![p] = x.pc]
          /\ inv' = [inv EXCEPT ![p] = x.l]
          /\ events' = [events EXCEPT ![p] = @ \o x.ev]
          /\ running' = IF x.pc = "tools" THEN p ELSE None
    /\ UNCHANGED <<used_ids, task_todos, session_trackers, adv, api_call, tool_req, task_call, pm_overlap,
                   chat_overlap>>
    /\ UNCHANGED <<store_call, router_call>>

\* the caller takes the returned result
Return(p) ==
    /\ running = None
    /\ pc[p] = "returned"
    /\ pc' = [pc EXCEPT ![p] = "idle"]
    /\ inv' = [inv EXCEPT ![p] = IdleInv]
    /\ events' = [events EXCEPT ![p] = <<>>]
    /\ UNCHANGED <<sessions, used_ids, task_todos, session_trackers, running,
                   adv, api_call, tool_req, task_call, pm_overlap,
                   chat_overlap>>
    /\ UNCHANGED <<store_call, router_call>>

----------------------------------------------------------------------------
(* POST /sessions/{id}/chat/advanced: one completion, no tool round *)

ChatAdvanced(sid, text) ==
    /\ running = None
    /\ adv.pc = "idle"
    /\ Len(get_messages(sessions, sid)) <= MaxLog
    /\ sid \in DOMAIN sessions
    /\ LET history == get_conversation_history(sessions, sid, <<>>)
       IN adv' = [pc |-> "llm", session_id |-> sid,
                  history |-> Append(history, [role |-> "user", content |-> text])]
    /\ sessions' = add_message(sessions, sid, "user", text, <<>>, None)
    /\ chat_overlap' = IF PmInFlight(sid) THEN chat_overlap \cup {sid} ELSE chat_overlap
    /\ UNCHANGED <<used_ids, task_todos, session_trackers, pc, inv, running,
                   api_call, tool_req, task_call, events, pm_overlap>>
    /\ UNCHANGED <<store_call, router_call>>

ChatAdvancedCompletion(response, model, usage) ==
    /\ running = None
    /\ adv.pc = "llm"
    /\ session_trackers' = chat_completion_track(session_trackers, adv.session_id,
                                                 model, usage)
    /\ sessions' = add_message(sessions, adv.session_id, "assistant",
                               response.content, response.tool_calls, None)
    /\ adv' = IdleAdv
    /\ UNCHANGED <<used_ids, task_todos, pc, inv, running, api_call, tool_req, task_call, events,
                   pm_overlap, chat_overlap>>
    /\ UNCHANGED <<store_call, router_call>>

----------------------------------------------------------------------------

(* The agent loop, one invocation at a time, with the store's operations *)

Slot1 == {"p1"}
Sids1 == {"s1"}
SpecCalls == { <<"todo_write", JsonLoads(TodoArgs).value>> }

Next ==
    \/ \E sid \in Sids1 : CreateSession(sid)
    \/ \E sid \in Sids1 : DeleteSession(sid)
    \/ \E sid \in Sids1, todos \in TodoLists : UpdateTodos(sid, todos)
    \/ \E sid \in Sids1, c \in SpecCalls : DirectTool(sid, c[1], c[2])
    \/ \E sid \in Sids1, c \in SpecCalls : WebsocketTool(sid, c[1], c[2])
    \/ \E p \in Slot1, sid \in Sids1, t \in UserTexts, n \in IterChoices :
          ProcessMessage(p, sid, t, n)
    \/ \E p \in Slot1, r \in Responses, m \in Models :
          Completion(p, r, m, NoUsage)
    \/ \E p \in Slot1, e \in ProviderErrors, m \in Models :
          CompletionFailure(p, e, m)
    \/ \E p \in Slot1 : Dispatch(p)
    \/ \E p \in Slot1, o \in HandlerOutcomes : HandlerReturn(p, o)
    \/ \E p \in Slot1 : Return(p)

Spec == Init /\ [][Next]_vars

(* The same steps when every awaited completion and handler comes back and
   the event loop keeps running the coroutine that is ready *)

Fairness ==
    /\ WF_vars(\E p \in Slot1, r \in Responses, m \in Models :
                   Completion(p, r, m, NoUsage))
    /\ WF_vars(\E p \in Slot1 : Dispatch(p))
    /\ WF_vars(\E p \in Slot1, o \in HandlerOutcomes : HandlerReturn(p, o))

SpecLive == Init /\ [][Next]_vars /\ Fairness

(* Replies with at most one tool call, for the runs where requests overlap *)

ConcResponses ==
    { r \in Responses : r.content = "ok" /\ Len(r.tool_calls) <= 1 }

(* process_message next to chat/advanced on one session *)

NextChat ==
    \/ \E sid \in Sids1 : CreateSession(sid)
    \/ \E p \in Slot1, sid \in Sids1, t \in UserTexts, n \in IterChoices \ {0} :
          ProcessMessage(p, sid, t, n)
    \/ \E p \in Slot1, r \in ConcResponses, m \in Models :
          Completion(p, r, m, NoUsage)
    \/ \E p \in Slot1 : Dispatch(p)
    \/ \E p \in Slot1, o \in HandlerOutcomes : HandlerReturn(p, o)
    \/ \E p \in Slot1 : Return(p)
    \/ \E sid \in Sids1, t \in UserTexts : ChatAdvanced(sid, t)
    \/ \E r \in ConcResponses, m \in Models, u \in Usages :
          ChatAdvancedCompletion(r, m, u)

SpecChat == Init /\ [][NextChat]_vars

(* Two process_message invocations on one session *)

NextConc ==
    \/ \E sid \in Sids1 : CreateSession(sid)
    \/ \E p \in Procs, sid \in Sids1, t \in UserTexts, n \in IterChoices \ {0} :
          ProcessMessage(p, sid, t, n)
    \/ \E p \in Procs, r \in ConcResponses, m \in Models :
          Completion(p, r, m, NoUsage)
    \/ \E p \in Procs : Dispatch(p)
    \/ \E p \in Procs, o \in HandlerOutcomes : HandlerReturn(p, o)
    \/ \E p \in Procs : Return(p)

SpecConc == Init /\ [][NextConc]_vars

(* Two sessions, each with its own process_message, and the store's own *)
(* operations on either                                                  *)

CrossResponses ==
    { r \in Responses :
         \/ r.tool_calls = <<>>
         \/ (r.tool_calls[1].function.name \in {"todo_write", "bash"}
               /\ JsonLoads(r.tool_calls[1].function.arguments).ok) }
\* the first invocation works on s1, the second on s2
CrossSession(p) == IF p = "p1" THEN "s1" ELSE "s2"
CrossTodoLists == { << [content |-> "ship", status |-> "completed"] >> }

NextCross ==
    \/ \E sid \in SessionIds : CreateSession(sid)
    \/ \E p \in Procs, t \in UserTexts :
          /\ Len(get_messages(sessions, CrossSession(p))) <= 1
          /\ ProcessMessage(p, CrossSession(p), t, 1)
    \/ \E p \in Procs, r \in CrossResponses, m \in Models :
          Completion(p, r, m, NoUsage)
    \/ \E p \in Procs : Dispatch(p)
    \/ \E p \in Procs, o \in HandlerOutcomes : HandlerReturn(p, o)
    \/ \E p \in Procs : Return(p)
    \/ \E sid \in SessionIds : StoreDelete(sid)
    \/ \E sid \in SessionIds, role \in StoreRoles, t \in UserTexts :
          StoreAppend(sid, role, t)
    \/ \E sid \in SessionIds, todos \in CrossTodoLists : StoreReplaceTodos(sid, todos)

SpecCross == Init /\ [][NextCross]_vars

(* process_message with replies that carry usage data *)

NextUsage ==
    \/ \E sid \in Sids1 : CreateSession(sid)
    \/ \E p \in Slot1, sid \in Sids1, t \in UserTexts, n \in IterChoices \ {0} :
          ProcessMessage(p, sid, t, n)
    \/ \E p \in Slot1, r \in ConcResponses, m \in Models, u \in Usages :
          Completion(p, r, m, u)
    \/ \E p \in Slot1 : Dispatch(p)
    \/ \E p \in Slot1, o \in HandlerOutcomes : HandlerReturn(p, o)
    \/ \E p \in Slot1 : Return(p)

SpecUsage == Init /\ [][NextUsage]_vars

(* The store on its own *)

NextStore ==
    \/ \E sid \in SessionIds : CreateSession(sid)
    \/ \E sid \in SessionIds : StoreGet(sid)
    \/ \E sid \in SessionIds : StoreDelete(sid)
    \/ \E sid \in SessionIds, role \in StoreRoles, t \in UserTexts :
          StoreAppend(sid, role, t)
    \/ \E sid \in SessionIds, todos \in StoreTodoLists : StoreReplaceTodos(sid, todos)
    \/ \E sid \in SessionIds : StoreHistory(sid, <<>>)
    \/ \E sid \in Sids1, c \in SpecCalls : DirectTool(sid, c[1], c[2])

SpecStore == Init /\ [][NextStore]_vars

(* The history view of logs of distinct messages, with every limit *)

NextHistory ==
    \/ \E sid \in SessionIds : CreateSession(sid)
    \/ \E sid \in Sids1, role \in StoreRoles, t \in StoreTexts : StoreAppend(sid, role, t)
    \/ \E sid \in SessionIds, limit \in Limits : StoreHistory(sid, limit)

SpecHistory == Init /\ [][NextHistory]_vars

(* add_message called with any role and any optional fields *)

NextRoles ==
    \/ \E sid \in Sids1 : CreateSession(sid)
    \/ \E sid \in Sids1, role \in MessageRole, t \in UserTexts,
          tool_calls \in AnyToolCalls, tool_call_id \in AnyToolCallIds :
          StoreAppendWith(sid, role, t, tool_calls, tool_call_id)

SpecRoles == Init /\ [][NextRoles]_vars

(* The tool endpoint and the store's endpoints *)

NextTool ==
    \/ \E sid \in SessionIds : CreateSession(sid)
    \/ \E sid \in SessionIds : DeleteSession(sid)
    \/ \E sid \in SessionIds, todos \in TodoLists : UpdateTodos(sid, todos)
    \/ \E sid \in SessionIds, c \in DirectCalls : DirectTool(sid, c[1], c[2])
    \/ \E sid \in SessionIds, c \in DirectCalls : WebsocketTool(sid, c[1], c[2])
    \/ \E o \in HandlerOutcomes : DirectToolReturn(o)

SpecTool == Init /\ [][NextTool]_vars

(* The todo list: replaced through the store and through todo_write *)

BadStatusList == << [content |-> "plan", status |-> "done"] >>
ReplaceLists == StoreTodoLists \cup {BadStatusList}
\* the argument maps todo_write is called with; the last has no 'todos' key
TodoWriteArgs ==
    { [todos |-> todos] : todos \in ReplaceLists } \cup { JsonLoads(EmptyArgs).value }

NextTodos ==
    \/ \E sid \in Sids1 : CreateSession(sid)
    \/ \E sid \in SessionIds, todos \in ReplaceLists : StoreReplaceTodos(sid, todos)
    \/ \E sid \in Sids1, args \in TodoWriteArgs : DirectTool(sid, "todo_write", args)
    \/ \E sid \in Sids1, args \in TodoWriteArgs : WebsocketTool(sid, "todo_write", args)
    \/ \E sid \in Sids1, todo_id \in UpdateIds, status \in UpdateStatuses,
          content \in UpdateContents : TaskUpdate(sid, todo_id, status, content)

SpecTodos == Init /\ [][NextTodos]_vars

(* process_message with bounds around zero *)

LowBounds == {-1, 0, 1}

NextBound ==
    \/ \E sid \in Sids1 : CreateSession(sid)
    \/ \E p \in Slot1, sid \in Sids1, t \in UserTexts, n \in LowBounds :
          ProcessMessage(p, sid, t, n)
    \/ \E p \in Slot1, r \in Responses, m \in Models :
          Completion(p, r, m, NoUsage)
    \/ \E p \in Slot1 : Dispatch(p)
    \/ \E p \in Slot1, o \in HandlerOutcomes : HandlerReturn(p, o)
    \/ \E p \in Slot1 : Return(p)

SpecBound == Init /\ [][NextBound]_vars

(* The classifier on every message and context of the model *)

NextRoute == \E message \in RouterMessages, context \in Contexts :
                 ClassifyTask(message, context)

SpecRoute == Init /\ [][NextRoute]_vars

(* Model selection on every message and context, with and without a forced *)
(* tier                                                                     *)

ForceTiers == {None} \cup ModelTier

Providers == {None, "anthropic"}
ProviderMessages == {"hello", "debug this error"}

NextSelect ==
    \/ \E message \in RouterMessages, context \in Contexts, force_tier \in ForceTiers :
          SelectModel(message, context, force_tier, None, NoKeys)
    \/ \E message \in ProviderMessages, force_tier \in ForceTiers,
          prefer_provider \in Providers, keys \in ApiKeys :
          SelectModel(message, NoContext, force_tier, prefer_provider, keys)

SpecSelect == Init /\ [][NextSelect]_vars

(* Model selection under every preference and every set of credentials *)

\* prefer_provider: not given, empty, the two providers, and another name
AnyProviders == {None, "", "openai", "anthropic", "google"}

NextProvider ==
    \E message \in ProviderMessages, force_tier \in ForceTiers,
       prefer_provider \in AnyProviders, keys \in ApiKeys :
       SelectModel(message, NoContext, force_tier, prefer_provider, keys)

SpecProvider == Init /\ [][NextProvider]_vars

(* The router's cost bookkeeping and its read operations *)

CostMessages == {"hello", "debug this error"}
OutputEstimates == {500}

NextCost ==
    \/ \E sid \in SessionIds, u \in CostUsages : TrackUsage(sid, u[1], u[2], u[3])
    \/ \E sid \in SessionIds, tie_up \in BOOLEAN : GetSessionCosts(sid, tie_up)
    \/ \E tie_up \in BOOLEAN : GetAllCosts(tie_up)
    \/ \E message \in CostMessages, out \in OutputEstimates, tie_up \in BOOLEAN :
          EstimateCost(message, out, NoKeys, tie_up)
    \/ \E message \in CostMessages : ClassifyTask(message, NoContext)
    \/ \E message \in CostMessages : SelectModel(message, NoContext, None, None, NoKeys)

SpecCost == Init /\ [][NextCost]_vars

(* Sessions that come and go while the router keeps their costs *)

NextLifetime ==
    \/ \E sid \in SessionIds : CreateSession(sid)
    \/ \E sid \in SessionIds : StoreDelete(sid)
    \/ \E sid \in DOMAIN sessions, u \in CostUsages : TrackUsage(sid, u[1], u[2], u[3])
    \/ \E tie_up \in BOOLEAN : GetAllCosts(tie_up)

SpecLifetime == Init /\ [][NextLifetime]_vars

----------------------------------------------------------------------------
(* Notions the properties below share *)

\* every tool message answers a call of the nearest assistant message before it
Pairing(messages) ==
    \A i \in 1..Len(messages) :
        messages[i].role = "tool" =>
            \E j \in 1..(i-1) :
                /\ messages[j].role = "assistant"
                /\ \A k \in (j+1)..(i-1) : messages[k].role # "assistant"
                /\ \E c \in 1..Len(messages[j].tool_calls) :
                       messages[j].tool_calls[c].id = messages[i].tool_call_id

IsToolMsg(ev) == ev.e = "tool_msg"
IsRequest(ev) == ev.e = "request"
IsBoundary(ev) == ev.e \in {"request", "return"}

Ids(calls) == [k \in 1..Len(calls) |-> calls[k].id]

\* the assistant events of an invocation that opened a round of tool calls
Rounds(evs) == { j \in 1..Len(evs) : evs[j].e = "assistant" /\ evs[j].calls # <<>> }

\* where the round opened at j ends: the next request or the return
RoundEnd(evs, j) ==
    IF \E i \in (j+1)..Len(evs) : IsBoundary(evs[i])
    THEN CHOOSE i \in (j+1)..Len(evs) :
             IsBoundary(evs[i]) /\ \A m \in (j+1)..(i-1) : ~IsBoundary(evs[m])
    ELSE Len(evs) + 1

RoundEvents(evs, j) == SubSeq(evs, j + 1, RoundEnd(evs, j) - 1)

RECURSIVE AllCalls(_)
\* the tool calls of all the replies of an invocation, in order
AllCalls(evs) ==
    IF evs = <<>> THEN <<>>
    ELSE (IF Head(evs).e = "assistant" THEN Head(evs).calls ELSE <<>>)
             \o AllCalls(Tail(evs))

Requests(p) == Len(SelectSeq(events[p], IsRequest))

Log(p) == get_messages(sessions, inv[p].session_id)
SessionThere(p) == inv[p].session_id \in DOMAIN sessions

----------------------------------------------------------------------------
(* The bounded loop *)

ToolMsgs(p) == SelectSeq(events[p], IsToolMsg)
AlwaysCalls(p) ==
    \A i \in 1..Len(events[p]) :
        events[p][i].e = "assistant" => events[p][i].calls # <<>>

\* C1: an invocation with bound N >= 1 never issues more than N completion
\* requests; when every reply carried tool calls it has, on return, issued
\* exactly N of them and returns 'Max iterations reached' with iterations = N.
C1_BoundedLoop ==
    \A p \in Procs :
        (pc[p] # "idle" /\ inv[p].max_iterations >= 1) =>
            /\ Requests(p) <= inv[p].max_iterations
            /\ (pc[p] = "returned" /\ AlwaysCalls(p)) =>
                   /\ Requests(p) = inv[p].max_iterations
                   /\ inv[p].result.message = "Max iterations reached"
                   /\ inv[p].result.iterations = inv[p].max_iterations

C1_Witness ==
    \E p \in Procs :
        /\ pc[p] = "returned"
        /\ inv[p].max_iterations = MaxIter
        /\ AlwaysCalls(p)
        /\ Requests(p) = MaxIter
        /\ inv[p].result.message = "Max iterations reached"

----------------------------------------------------------------------------
(* Pairing of tool messages with the calls they answer *)

\* Pairing where requests come one at a time: on a session where no chat
\* request (a process_message invocation or a chat/advanced request) overlapped
\* another one, every 'tool' message carries the id of a call of the nearest
\* 'assistant' message before it.
PairingWithoutOverlap ==
    \A sid \in DOMAIN sessions :
        sid \notin chat_overlap => Pairing(sessions[sid].messages)

PairingWithoutOverlap_Reached ==
    \E sid \in DOMAIN sessions :
        /\ sid \notin chat_overlap
        /\ Len(sessions[sid].messages) >= 5
        /\ \E i, j \in 1..Len(sessions[sid].messages) :
               /\ i < j
               /\ sessions[sid].messages[i].role = "tool"
               /\ sessions[sid].messages[j].role = "assistant"
               /\ sessions[sid].messages[j].tool_calls = <<>>

\* C2: on a session on which process_message invocations never overlapped one
\* another, every 'tool' message carries the id of a call of the nearest
\* 'assistant' message before it.
C2_PairingSequentialInvocations ==
    \A sid \in DOMAIN sessions :
        sid \notin pm_overlap => Pairing(sessions[sid].messages)

----------------------------------------------------------------------------
(* Serialization of invocations on one session *)

InFlight(p) == pc[p] \in {"llm", "tools", "tool_wait"}

\* C3: invocations on one session are serialized: at most one of them is in
\* flight on a session at a time, and every reachable log satisfies the
\* pairing of tool messages with calls, also when requests arrive together.
C3_Serialized ==
    /\ \A p, q \in Procs :
           (p # q /\ InFlight(p) /\ InFlight(q)) =>
               inv[p].session_id # inv[q].session_id
    /\ \A sid \in DOMAIN sessions : Pairing(sessions[sid].messages)

----------------------------------------------------------------------------
(* The log only grows *)

\* C4: across every step on a session that exists before and after it, the
\* old log is a prefix of the new one: messages are appended, never removed,
\* reordered or changed.
C4_AppendOnly ==
    [][\A sid \in DOMAIN sessions \cap DOMAIN sessions' :
          /\ Len(sessions'[sid].messages) >= Len(sessions[sid].messages)
          /\ SubSeq(sessions'[sid].messages, 1, Len(sessions[sid].messages))
                 = sessions[sid].messages]_vars

C4_Witness ==
    \E sid \in DOMAIN sessions :
        /\ Len(sessions[sid].messages) >= 4
        /\ sessions[sid].todos # <<>>
        /\ api_call # <<>>
        /\ \E i \in 1..Len(sessions[sid].messages) :
               sessions[sid].messages[i].role = "tool"

----------------------------------------------------------------------------
(* Truncated views of the log *)

\* every tool entry of a view answers a call of the nearest assistant entry
\* before it in the view
PairsIntact(view) ==
    \A i \in 1..Len(view) :
        view[i].role = "tool" =>
            \E j \in 1..(i-1) :
                /\ view[j].role = "assistant"
                /\ \A k \in (j+1)..(i-1) : view[k].role # "assistant"
                /\ "tool_calls" \in DOMAIN view[j]
                /\ "tool_call_id" \in DOMAIN view[i]
                /\ \E c \in 1..Len(view[j].tool_calls) :
                       view[j].tool_calls[c].id = view[i].tool_call_id

\* C5: for every log that satisfies the pairing and every limit N, the view
\* history_view(id, N) holds no 'tool' message whose proposing 'assistant'
\* message was cut off: a pair is wholly inside the view or wholly omitted.
\* (The view is a suffix of the log, so answers after an 'assistant' message
\* that is inside the view are inside it too.)
C5_TruncationKeepsPairs ==
    \A sid \in DOMAIN sessions :
        Pairing(sessions[sid].messages) =>
            \A n \in 1..MaxLimit :
                PairsIntact(get_conversation_history(sessions, sid, <<n>>))

----------------------------------------------------------------------------
(* Rounds of tool calls *)

\* C6: in an invocation on an existing session, a round whose reply carries k
\* calls appends one 'tool' message per call, with that call's id, after the
\* assistant message, and all k of them before the next completion request or
\* the return; a handler is invoked only after the assistant message that
\* proposed its call has been appended.
C6_OneResultPerCall ==
    \A p \in Procs :
        LET evs == events[p] IN
        /\ \A j \in Rounds(evs) :
               LET msgs == SelectSeq(RoundEvents(evs, j), IsToolMsg)
                   ids == Ids(evs[j].calls)
               IN /\ Len(msgs) <= Len(ids)
                  /\ \A k \in 1..Len(msgs) : msgs[k].id = ids[k]
                  /\ RoundEnd(evs, j) <= Len(evs) => Len(msgs) = Len(ids)
                  /\ SessionThere(p) =>
                         /\ evs[j].at > 0
                         /\ Log(p)[evs[j].at].role = "assistant"
                         /\ Log(p)[evs[j].at].tool_calls = evs[j].calls
                         /\ \A k \in 1..Len(msgs) :
                                /\ msgs[k].at > evs[j].at
                                /\ Log(p)[msgs[k].at].role = "tool"
                                /\ Log(p)[msgs[k].at].tool_call_id = ids[k]
        /\ \A i \in 1..Len(evs) :
               evs[i].e \in {"invoke", "tool_msg"} =>
                   \E j \in Rounds(evs) :
                       /\ j < i
                       /\ i < RoundEnd(evs, j)
                       /\ \E k \in 1..Len(evs[j].calls) : evs[j].calls[k].id = evs[i].id

C6_Witness ==
    \E p \in Procs :
        /\ SessionThere(p)
        /\ Requests(p) = 2
        /\ \E j \in Rounds(events[p]) :
               /\ Len(events[p][j].calls) = 2
               /\ RoundEnd(events[p], j) <= Len(events[p])
               /\ events[p][RoundEnd(events[p], j)].e = "request"

\* C7: within a round the calls are invoked one at a time in the order the
\* reply lists them, each result appended before the next call starts; the
\* 'tool' messages in the log and the entries of the trace follow that order
\* across all rounds, and the returned trace is that trace.
C7_ToolOrder ==
    \A p \in Procs :
        LET evs == events[p]
            msgs == ToolMsgs(p)
            calls == AllCalls(evs)
            trace == inv[p].tool_results
        IN /\ \A j \in Rounds(evs) :
                  LET seg == RoundEvents(evs, j) IN
                  \A m \in 1..Len(seg) :
                      /\ seg[m].e = IF m % 2 = 1 THEN "invoke" ELSE "tool_msg"
                      /\ seg[m].id = evs[j].calls[(m + 1) \div 2].id
           /\ Len(trace) = Len(msgs)
           /\ Len(msgs) <= Len(calls)
           /\ \A k \in 1..Len(msgs) :
                  /\ msgs[k].id = calls[k].id
                  /\ trace[k].tool = calls[k].function.name
                  /\ SessionThere(p) =>
                         /\ Log(p)[msgs[k].at].content = Dumps(trace[k].result)
                         /\ k > 1 => msgs[k].at > msgs[k-1].at
           /\ pc[p] = "returned" => inv[p].result.tool_results = trace

C7_Witness ==
    \E p \in Procs :
        /\ pc[p] = "returned"
        /\ SessionThere(p)
        /\ Len(inv[p].result.tool_results) = 4
        /\ inv[p].result.tool_results[1].tool = "todo_write"
        /\ inv[p].result.tool_results[2].tool = "not_a_real_tool"
        /\ inv[p].result.tool_results[3].tool = "deploy"
        /\ inv[p].result.tool_results[4].tool = "bash"

\* C8: when a handler raises during a round, the result of that call is a map
\* with an 'error' entry; it is recorded in the trace and appended as the
\* call's 'tool' message, the remaining calls of the round are still executed,
\* and the loop goes on to the next completion request (or, with the bound
\* used up, to the max-iterations return).
C8_ToolFailureContained ==
    \A p \in Procs :
        LET evs == events[p]
            msgs == ToolMsgs(p)
            trace == inv[p].tool_results
        IN /\ \A k \in 1..Len(msgs) :
                  msgs[k].raised =>
                      /\ k <= Len(trace)
                      /\ "error" \in DOMAIN trace[k].result
                      /\ SessionThere(p) =>
                             /\ Log(p)[msgs[k].at].role = "tool"
                             /\ Log(p)[msgs[k].at].tool_call_id = msgs[k].id
                             /\ Log(p)[msgs[k].at].content = Dumps(trace[k].result)
           /\ \A j \in Rounds(evs) :
                  LET seg == SelectSeq(RoundEvents(evs, j), IsToolMsg)
                      end == RoundEnd(evs, j)
                  IN (end <= Len(evs) /\ \E k \in 1..Len(seg) : seg[k].raised) =>
                         /\ Len(seg) = Len(evs[j].calls)
                         /\ evs[end].e = "request"
                                <=> Len(SelectSeq(SubSeq(evs, 1, end - 1), IsRequest))
                                        < inv[p].max_iterations
                         /\ evs[end].e = "return" =>
                                /\ pc[p] = "returned"
                                /\ inv[p].result.message = "Max iterations reached"

C8_Witness ==
    \E p \in Procs :
        /\ SessionThere(p)
        /\ pc[p] = "llm"
        /\ Requests(p) = 2
        /\ Len(ToolMsgs(p)) = 2
        /\ ToolMsgs(p)[1].raised
        /\ inv[p].tool_results[1].tool = "deploy"
        /\ inv[p].tool_results[2].tool = "message_user"

----------------------------------------------------------------------------
(* The dispatcher called directly *)

\* C9: for a name outside the registered tool names and any argument map the
\* dispatcher returns exactly {error: 'Unknown tool: <name>'}, whatever a
\* handler would have done, and the call leaves sessions, todos and trackers
\* as they were.
C9_UnknownTool ==
    [][\A sid \in SessionIds, c \in DirectCalls :
          (c[1] \notin RegisteredTools
           /\ (DirectTool(sid, c[1], c[2]) \/ WebsocketTool(sid, c[1], c[2]))) =>
              /\ api_call'.result = [error |-> "Unknown tool: " \o c[1]]
              /\ UNCHANGED <<sessions, task_todos, session_trackers>>]_vars

C9_Witness ==
    /\ api_call # <<>>
    /\ api_call.tool_name = "nope"
    /\ api_call.args # <<>>
    /\ api_call.result = [error |-> "Unknown tool: nope"]
    /\ \E sid \in DOMAIN sessions : sessions[sid].todos # <<>>

\* results that come out of BaseTool.run
ThroughRun(tool_name, args) ==
    \/ tool_name = "bash"
    \/ tool_name = "todo_write" /\ TodosOk(Get(args, "todos", <<>>))

\* What does hold of durations: every result that comes out of BaseTool.run,
\* on success and on handler failure, contains the execution duration; the
\* result for an unregistered name contains none.
DurationFromRun ==
    api_call # <<>> =>
        /\ ThroughRun(api_call.tool_name, api_call.args) =>
               {"success", "execution_time_ms"} \subseteq DOMAIN api_call.result
        /\ api_call.tool_name \notin RegisteredTools =>
               "execution_time_ms" \notin DOMAIN api_call.result

DurationFromRun_Reached ==
    /\ api_call # <<>>
    /\ api_call.tool_name = "bash"
    /\ api_call.result.success = FALSE
    /\ api_call.result.error = "boom"
    /\ "execution_time_ms" \in DOMAIN api_call.result

\* C10: every result of the dispatcher, on success, on handler failure and for
\* an unregistered name, contains the execution duration.
C10_DurationAlways ==
    api_call # <<>> => "execution_time_ms" \in DOMAIN api_call.result

----------------------------------------------------------------------------
(* Usage tracking *)

HasTokens(ev) == ev.e = "assistant" /\ ev.tokens > 0

\* C11: when process_message returns, the session's tracker has grown by one
\* record for every completion of the call whose reply carried usage data.
C11_UsageTrackedPerCompletion ==
    \A p \in Procs :
        pc[p] = "returned" =>
            TotalRequests(session_trackers, inv[p].session_id)
                = events[p][1].tracked + Len(SelectSeq(events[p], HasTokens))

----------------------------------------------------------------------------
(* The ways a call to process_message ends *)

\* C12: a reply without tool calls is appended as the assistant message and
\* ends the call at once: no further request, no further tool; the call
\* returns the reply's content, the trace so far and the number of completion
\* requests made (1 and an empty trace when it is the first reply).
C12_DoneOutcome ==
    \A p \in Procs :
        LET evs == events[p] IN
        \A i \in 1..Len(evs) :
            (evs[i].e = "assistant" /\ evs[i].calls = <<>>) =>
                /\ Len(evs) = i + 1
                /\ evs[i + 1].e = "return"
                /\ pc[p] = "returned"
                /\ inv[p].result.tool_results = inv[p].tool_results
                /\ Len(inv[p].result.tool_results) = Len(ToolMsgs(p))
                /\ inv[p].result.iterations = Requests(p)
                /\ Requests(p) = 1 =>
                       /\ inv[p].result.iterations = 1
                       /\ inv[p].result.tool_results = <<>>
                /\ SessionThere(p) =>
                       /\ Log(p)[evs[i].at].role = "assistant"
                       /\ Log(p)[evs[i].at].tool_calls = <<>>
                       /\ Log(p)[evs[i].at].content = inv[p].result.message

C12_Witness ==
    \E p \in Procs :
        /\ pc[p] = "returned"
        /\ SessionThere(p)
        /\ inv[p].result.message = "ok"
        /\ inv[p].result.iterations = 2
        /\ Len(inv[p].result.tool_results) = 2
        /\ inv[p].max_iterations = 2

\* C13: when the provider call fails, the reply is an error text without tool
\* calls; process_message appends it as the assistant message and returns it
\* as the ordinary final reply, with the trace so far: no exception and no
\* max-iterations outcome.
C13_ProviderFailureEndsTurn ==
    \A p \in Procs :
        LET evs == events[p] IN
        \A i \in 1..Len(evs) :
            (evs[i].e = "assistant" /\ evs[i].failed) =>
                /\ evs[i].calls = <<>>
                /\ Len(evs) = i + 1
                /\ evs[i + 1].e = "return"
                /\ pc[p] = "returned"
                /\ inv[p].result.message = "Error: provider down"
                /\ inv[p].result.message # "Max iterations reached"
                /\ inv[p].result.tool_results = inv[p].tool_results
                /\ inv[p].result.iterations = Requests(p)
                /\ SessionThere(p) =>
                       /\ Log(p)[evs[i].at].role = "assistant"
                       /\ Log(p)[evs[i].at].content = "Error: provider down"

C13_Witness ==
    \E p \in Procs :
        /\ pc[p] = "returned"
        /\ SessionThere(p)
        /\ events[p][Len(events[p]) - 1].failed
        /\ inv[p].result.message = "Error: provider down"
        /\ inv[p].result.iterations = 2
        /\ Len(inv[p].result.tool_results) = 1

----------------------------------------------------------------------------
(* Argument payloads that are not JSON *)

Unparseable(call) == ~JsonLoads(call.function.arguments).ok

\* C14: a call whose argument text is not JSON is still dispatched, by its
\* name and with an empty argument map; its result is recorded and appended as
\* the 'tool' message with the call's id, and the round and the loop go on.
C14_ParseFailureTolerated ==
    \A p \in Procs :
        LET evs == events[p]
            msgs == ToolMsgs(p)
            calls == AllCalls(evs)
            trace == inv[p].tool_results
        IN /\ \A k \in 1..Len(trace) :
                  Unparseable(calls[k]) =>
                      /\ trace[k].tool = calls[k].function.name
                      /\ trace[k].args = <<>>
                      /\ trace[k].tool = "message_user" =>
                             trace[k].result = [success |-> TRUE, message |-> "",
                                                block_on_user |-> FALSE]
                      /\ trace[k].tool = "bash" =>
                             /\ trace[k].result.success = FALSE
                             /\ "error" \in DOMAIN trace[k].result
                      /\ msgs[k].id = calls[k].id
                      /\ SessionThere(p) =>
                             /\ Log(p)[msgs[k].at].role = "tool"
                             /\ Log(p)[msgs[k].at].tool_call_id = calls[k].id
                             /\ Log(p)[msgs[k].at].content = Dumps(trace[k].result)
           /\ \A j \in Rounds(evs) :
                  LET end == RoundEnd(evs, j)
                  IN (end <= Len(evs)
                          /\ \E c \in 1..Len(evs[j].calls) : Unparseable(evs[j].calls[c])) =>
                         /\ Len(SelectSeq(RoundEvents(evs, j), IsToolMsg))
                                = Len(evs[j].calls)
                         /\ evs[end].e = "request"
                                <=> Len(SelectSeq(SubSeq(evs, 1, end - 1), IsRequest))
                                        < inv[p].max_iterations

C14_Witness ==
    \E p \in Procs :
        /\ SessionThere(p)
        /\ pc[p] = "llm"
        /\ Requests(p) = 2
        /\ Len(inv[p].tool_results) = 1
        /\ inv[p].tool_results[1].tool = "message_user"
        /\ inv[p].tool_results[1].args = <<>>
        /\ Unparseable(AllCalls(events[p])[1])

----------------------------------------------------------------------------
(* Termination *)

IsReturn(ev) == ev.e = "return"

\* the reply that ended the call carried no tool calls
EndedDone(p) ==
    LET evs == events[p]
    IN /\ Len(evs) >= 2
       /\ evs[Len(evs) - 1].e = "assistant"
       /\ evs[Len(evs) - 1].calls = <<>>

\* the call has returned in exactly one of its two terminal states
Terminated(p) ==
    /\ pc[p] = "returned"
    /\ Len(SelectSeq(events[p], IsReturn)) = 1
    /\ events[p][Len(events[p])].e = "return"
    /\ Requests(p) <= inv[p].max_iterations
    /\ inv[p].result.iterations = Requests(p)
    /\ ~EndedDone(p) =>
           /\ inv[p].result.message = "Max iterations reached"
           /\ Requests(p) = inv[p].max_iterations

\* C15: when every completion and every handler comes back, a call of
\* process_message that has begun eventually returns a result to its caller,
\* in exactly one of the two terminal states (the final reply, or the bound
\* used up), after at most max_iterations rounds.
C15_Termination ==
    \A p \in Slot1 : (pc[p] \in {"llm", "tools", "tool_wait"}) ~> Terminated(p)

C15_Witness ==
    \E p \in Slot1 :
        /\ Terminated(p)
        /\ ~EndedDone(p)
        /\ inv[p].max_iterations = MaxIter
        /\ Len(inv[p].tool_results) = 3

----------------------------------------------------------------------------
(* The store's operations *)

\* the step is the named operation of the store on the given id
Got(sid) == store_call'.op = "get" /\ StoreGet(sid)
Deleted(sid) == store_call'.op = "delete" /\ StoreDelete(sid)
Appended(sid, role, content) ==
    store_call'.op = "append" /\ StoreAppend(sid, role, content)
Replaced(sid, todos) ==
    store_call'.op = "replace_todos" /\ StoreReplaceTodos(sid, todos)

\* C16: for an id that is not in the store, get returns no session, delete
\* returns false, append_message returns no message and replace_todos returns
\* no list; none of them raises and none of them creates or changes a session.
C16_NotFound ==
    [][\A sid \in SessionIds \ DOMAIN sessions :
          /\ Got(sid) => store_call'.returns = <<>>
          /\ Deleted(sid) => store_call'.returns = FALSE
          /\ \A role \in StoreRoles, t \in UserTexts :
                 Appended(sid, role, t) => store_call'.returns = <<>>
          /\ \A todos \in StoreTodoLists :
                 Replaced(sid, todos) => store_call'.returns = <<>>
          /\ ( \/ Got(sid)
               \/ Deleted(sid)
               \/ \E role \in StoreRoles, t \in UserTexts : Appended(sid, role, t)
               \/ \E todos \in StoreTodoLists : Replaced(sid, todos) )
             => /\ ~store_call'.raised
                /\ sessions' = sessions]_vars

C16_Witness ==
    /\ store_call.op = "replace_todos"
    /\ ~store_call.found
    /\ store_call.returns = <<>>
    /\ store_call.sid \notin DOMAIN sessions
    /\ \E sid \in DOMAIN sessions : sessions[sid].messages # <<>>

\* C17: for an id that is not in the store, history_view(id) returns a signal
\* that differs from the empty history of an existing session without messages.
C17_HistorySignalsMissing ==
    (store_call.op = "history" /\ ~store_call.found) =>
        store_call.returns # get_conversation_history(create_session(<<>>, "s1"),
                                                      "s1", <<>>)

\* C18: delete(id) returns true exactly when the session existed just before,
\* afterwards no session has that id, and every other session is as it was; a
\* delete of an id that is gone returns false and leaves the store unchanged.
C18_DeleteIdempotent ==
    [][\A sid \in SessionIds :
          Deleted(sid) =>
              /\ store_call'.returns = (sid \in DOMAIN sessions)
              /\ sid \notin DOMAIN sessions'
              /\ DOMAIN sessions' = DOMAIN sessions \ {sid}
              /\ \A other \in DOMAIN sessions' : sessions'[other] = sessions[other]
              /\ sid \notin DOMAIN sessions =>
                     /\ store_call'.returns = FALSE
                     /\ sessions' = sessions]_vars

C18_Witness ==
    /\ store_call.op = "delete"
    /\ store_call.sid \in used_ids
    /\ store_call.returns = FALSE
    /\ \E sid \in DOMAIN sessions :
           sessions[sid].messages # <<>> /\ sessions[sid].todos # <<>>

\* the items replace_todos is to store for a list of well-formed entries
Expected(todos) ==
    [i \in 1..Len(todos) |->
        [content |-> todos[i].content,
         status |-> IF "status" \in DOMAIN todos[i] THEN todos[i].status
                    ELSE "pending"]]

\* C19: after replace_todos(id, L) succeeds on an existing session, its todo
\* list is exactly the items of L, in order, with their content and status
\* ('pending' when omitted), whatever the list held before, and its message
\* log is as before.
C19_TodoReplace ==
    [][\A sid \in DOMAIN sessions, todos \in StoreTodoLists :
          (Replaced(sid, todos) /\ ~store_call'.raised) =>
              /\ sessions'[sid].todos = Expected(todos)
              /\ store_call'.returns = << Expected(todos) >>
              /\ sessions'[sid].messages = sessions[sid].messages]_vars

C19_Witness ==
    /\ store_call.op = "replace_todos"
    /\ store_call.found
    /\ ~store_call.raised
    /\ store_call.sid \in DOMAIN sessions
    /\ sessions[store_call.sid].todos = << [content |-> "ship", status |-> "completed"] >>
    /\ sessions[store_call.sid].messages # <<>>
    /\ store_call.sid \in DOMAIN task_todos

----------------------------------------------------------------------------
(* The classifier *)

\* the highest score in the dictionary of the last classify call
TopScore == router_call.scores[MaxKey(router_call.scores)]

\* the score of the category the last classify call returned
ReturnedScore ==
    LET i == CHOOSE i \in DOMAIN router_call.scores :
                 TaskCategory[i] = router_call.returns.category
    IN router_call.scores[i]

\* C20: whenever the confidence classify returns is below 0.3 the category it
\* returns is 'conversation', whichever category scored highest; whenever the
\* confidence is at least 0.3 the category it returns is one that no other
\* category outscores.
C20_LowConfidenceFallback ==
    router_call.op = "classify" =>
        IF BelowThreshold(router_call.returns.confidence)
        THEN router_call.returns.category = "conversation"
        ELSE ReturnedScore = TopScore

\* a message that scores in four categories, none of them 'conversation', is
\* classified with confidence 1/4 and returned as 'conversation'
C20_Witness ==
    /\ router_call.op = "classify"
    /\ router_call.returns.confidence = [num |-> 10, den |-> 40]
    /\ TaskCategory[MaxKey(router_call.scores)] = "debugging"
    /\ ReturnedScore = 0
    /\ router_call.returns.category = "conversation"

\* the sum of the scores of the last classify call
ScoreSum == SumTo(router_call.scores, Len(router_call.scores))

\* the fraction is a number between 0 and 1
InUnitInterval(confidence) ==
    confidence.den > 0 /\ 0 <= confidence.num /\ confidence.num <= confidence.den

\* C21 as stated: the confidence classify returns lies in [0,1], equals the
\* winning score divided by the sum of all scores when that sum is not zero,
\* and equals 1.0 when the sum is zero.
C21_ConfidenceNormalization ==
    router_call.op = "classify" =>
        /\ InUnitInterval(router_call.returns.confidence)
        /\ IF ScoreSum # 0
           THEN router_call.returns.confidence.num * ScoreSum
                    = router_call.returns.confidence.den * TopScore
           ELSE router_call.returns.confidence.num
                    = router_call.returns.confidence.den

\* C21 amended: the confidence classify returns lies in [0,1] and equals the
\* winning score divided by the larger of the sum of all scores and 1.0: the
\* score over the sum when the sum is at least 1, the score itself when the
\* sum is below 1, and 0 when every score is zero.
C21_ConfidenceOverSumOrOne ==
    router_call.op = "classify" =>
        /\ InUnitInterval(router_call.returns.confidence)
        /\ router_call.returns.confidence.num * (IF ScoreSum > 10 THEN ScoreSum ELSE 10)
               = router_call.returns.confidence.den * TopScore
        /\ ScoreSum = 0 => router_call.returns.confidence.num = 0

\* a call whose only score is the 0.5 of a follow-up: the sum is below 1 and
\* the confidence is 0.5
C21_Witness ==
    /\ router_call.op = "classify"
    /\ ScoreSum = 5
    /\ TopScore = 5
    /\ router_call.returns.confidence = [num |-> 5, den |-> 10]
    /\ router_call.returns.category = "conversation"

----------------------------------------------------------------------------
(* Model selection *)

\* C22: without force_tier, select_model returns the default tier of the
\* category it returns, except that a default of 'fast' becomes 'standard'
\* when the confidence is below 0.5; 'standard' and 'premium' defaults are
\* returned as they are. So simple_query routes to fast at confidence >= 0.5
\* and to standard below it, and debugging and architecture route to premium.
C22_TierEscalation ==
    (router_call.op = "select" /\ router_call.force_tier = None) =>
        LET category == router_call.returns.category
            low == BelowHalf(router_call.classified.confidence)
            default == category_to_tier[category]
        IN /\ router_call.returns.tier =
                  IF default = "fast" /\ low THEN "standard" ELSE default
           /\ category = "simple_query" =>
                  router_call.returns.tier = IF low THEN "standard" ELSE "fast"
           /\ category \in {"debugging", "architecture"} =>
                  router_call.returns.tier = "premium"
           /\ category \in {"code_analysis", "code_generation", "data_analysis",
                             "planning"} =>
                  router_call.returns.tier = "standard"

\* simple_query wins with a confidence between 0.3 and 0.5 and is routed to
\* the standard tier
C22_Witness ==
    /\ router_call.op = "select"
    /\ router_call.force_tier = None
    /\ router_call.returns.category = "simple_query"
    /\ BelowHalf(router_call.classified.confidence)
    /\ router_call.returns.tier = "standard"
    /\ router_call.returns.model = "gpt-4-turbo-preview"

\* C23: with force_tier given, select_model returns that tier and the
\* provider's model for that tier, whatever the message, the context and the
\* confidence, and the category it returns is the one classify computes.
C23_ForceTierWins ==
    (router_call.op = "select" /\ router_call.force_tier # None) =>
        /\ router_call.returns.tier = router_call.force_tier
        /\ router_call.returns.model =
               get_model_for_tier(router_call.force_tier,
                                  ResolveProvider(router_call.prefer_provider,
                                                  router_call.keys))
        /\ router_call.returns.category = router_call.classified.category

\* a debugging message, which would be routed to premium, is forced to fast
C23_Witness ==
    /\ router_call.op = "select"
    /\ router_call.force_tier = "fast"
    /\ router_call.classified.category = "debugging"
    /\ router_call.prefer_provider = "anthropic"
    /\ router_call.returns =
           [model |-> "claude-3-haiku-20240307", tier |-> "fast",
            category |-> "debugging"]

----------------------------------------------------------------------------
(* The cost bookkeeping *)

RECURSIVE UsageSum(_, _, _)
\* over the first n usages: the input tokens, the output tokens, or the cost
\* at the table's price (nothing for a model the table does not have)
UsageSum(h, n, what) ==
    IF n = 0 THEN 0
    ELSE UsageSum(h, n - 1, what)
         + (CASE what = "input" -> h[n].input_tokens
              [] what = "output" -> h[n].output_tokens
              [] what = "cost" ->
                   IF h[n].model \in DOMAIN model_costs
                   THEN h[n].input_tokens * model_costs[h[n].model].input
                        + h[n].output_tokens * model_costs[h[n].model].output
                   ELSE 0)

\* the tracker's totals are the sums over its history
TotalsMatchHistory(tracker) ==
    LET h == tracker.usage_history
    IN /\ tracker.total_input_tokens = UsageSum(h, Len(h), "input")
       /\ tracker.total_output_tokens = UsageSum(h, Len(h), "output")
       /\ tracker.total_cost = UsageSum(h, Len(h), "cost")

\* the last call was track_usage and it did what C25 says of it: the tracker
\* exists, its history is the one before with the returned record appended,
\* its totals grew by the record's tokens and cost, no other tracker changed
TrackedOne ==
    LET sid == router_call.sid
        usage == router_call.returns
        old == router_call.before
        h == IF sid \in DOMAIN old THEN old[sid].usage_history ELSE <<>>
    IN /\ ~router_call.raised
       /\ DOMAIN session_trackers = DOMAIN old \cup {sid}
       /\ session_trackers[sid].usage_history = Append(h, usage)
       /\ session_trackers[sid].total_input_tokens =
              UsageSum(h, Len(h), "input") + usage.input_tokens
       /\ session_trackers[sid].total_output_tokens =
              UsageSum(h, Len(h), "output") + usage.output_tokens
       /\ session_trackers[sid].total_cost =
              UsageSum(h, Len(h), "cost") + UsageSum(<< usage >>, 1, "cost")
       /\ \A other \in DOMAIN old \ {sid} : session_trackers[other] = old[other]
       /\ (usage.model = "gpt-3.5-turbo" /\ usage.input_tokens = 1000
              /\ usage.output_tokens = 500) =>
              UsageSum(<< usage >>, 1, "cost") = 1250000
       /\ usage.model = "my-model" => UsageSum(<< usage >>, 1, "cost") = 0

\* the token and request totals get_all_costs returned are the sums over all
\* trackers
AllCostsCounts ==
    /\ router_call.returns.total_input_tokens =
           SumOver(session_trackers, DOMAIN session_trackers, "total_input_tokens")
    /\ router_call.returns.total_output_tokens =
           SumOver(session_trackers, DOMAIN session_trackers, "total_output_tokens")
    /\ router_call.returns.total_requests =
           SumOver(session_trackers, DOMAIN session_trackers, "total_requests")

\* C25 as stated: track_usage creates the tracker if absent, appends one
\* record and adds its tokens and cost to the totals; every tracker's totals
\* and request count are the sums and the count over its history; and what
\* get_all_costs returns equals the sum over all trackers.
C25_CostAccumulation ==
    /\ \A sid \in DOMAIN session_trackers : TotalsMatchHistory(session_trackers[sid])
    /\ router_call.op = "track_usage" => TrackedOne
    /\ router_call.op = "all_costs" =>
           /\ AllCostsCounts
           /\ router_call.returns.total_cost =
                  SumOver(session_trackers, DOMAIN session_trackers, "total_cost")

\* C25 amended: as stated, except that the total cost get_all_costs returns is
\* the sum over all trackers rounded to 6 decimal places (whole millionths of
\* a dollar).
C25_CostAccumulationRounded ==
    /\ \A sid \in DOMAIN session_trackers : TotalsMatchHistory(session_trackers[sid])
    /\ router_call.op = "track_usage" => TrackedOne
    /\ router_call.op = "all_costs" =>
           /\ AllCostsCounts
           /\ router_call.returns.total_cost % 1000 = 0
           /\ LET d == router_call.returns.total_cost
                       - SumOver(session_trackers, DOMAIN session_trackers,
                                 "total_cost")
              IN -500 <= d /\ d <= 500

\* get_all_costs over two full trackers that hold a usage of a priced model,
\* one of a model without a price and one that costs a quarter of a millionth
C25_Witness ==
    /\ router_call.op = "all_costs"
    /\ DOMAIN session_trackers = SessionIds
    /\ \A sid \in SessionIds : Len(session_trackers[sid].usage_history) = MaxUsage
    /\ router_call.returns.total_requests = 2 * MaxUsage
    /\ router_call.returns.total_cost = 1250000
    /\ SumOver(session_trackers, DOMAIN session_trackers, "total_cost") = 1250250
    /\ \E sid \in SessionIds :
           \E k \in 1..MaxUsage : session_trackers[sid].usage_history[k].model = "my-model"

\* the operations of the router that only read
CostReads == {"session_costs", "all_costs", "estimate_cost", "classify", "select"}

\* C26: session_costs, all_costs, estimate_cost, classify and select_model
\* leave the trackers as they are: none is created, no usage is appended, no
\* total changes; and session_costs for an id without a tracker returns the
\* all-zero summary.
C26_CostReadsPure ==
    [][router_call'.op \in CostReads =>
          /\ session_trackers' = session_trackers
          /\ (router_call'.op = "session_costs"
                 /\ router_call'.sid \notin DOMAIN session_trackers) =>
                 router_call'.returns =
                     [session_id |-> router_call'.sid, total_cost |-> 0,
                      total_input_tokens |-> 0, total_output_tokens |-> 0,
                      total_requests |-> 0, cost_by_model |-> <<>>]]_vars

\* session_costs was asked for a session without a tracker while the other
\* session has a full one: the summary is all zero and no tracker appeared
C26_Witness ==
    /\ router_call.op = "session_costs"
    /\ router_call.sid \notin DOMAIN session_trackers
    /\ router_call.returns.total_requests = 0
    /\ router_call.returns.total_cost = 0
    /\ \E sid \in DOMAIN session_trackers :
           Len(session_trackers[sid].usage_history) = MaxUsage

----------------------------------------------------------------------------
(* Sessions next to each other *)

\* the step is one of invocation p of process_message
Acted(p) == pc'[p] # pc[p] \/ inv'[p] # inv[p] \/ events'[p] # events[p]

\* the session invocation p works on in this step
SessionOf(p) == IF pc[p] = "idle" THEN inv'[p].session_id ELSE inv[p].session_id

\* the step is an operation addressed to session sid: one of the store's own
\* operations on sid, or a step of a process_message invocation for sid
\* (its appends and the tools it runs, todo_write among them)
AddressedTo(sid) ==
    \/ Deleted(sid)
    \/ \E role \in StoreRoles, t \in UserTexts : Appended(sid, role, t)
    \/ \E todos \in StoreTodoLists : Replaced(sid, todos)
    \/ \E p \in Procs : Acted(p) /\ SessionOf(p) = sid

\* C27: an operation addressed to one session leaves the message log and the
\* todo list of every other session as they were, also while process_message
\* invocations for the two sessions are suspended in between each other's
\* steps: a session's log or todo list changes, or the session goes, only in
\* a step addressed to that session.
C27_CrossSessionIndependence ==
    [][\A b \in DOMAIN sessions :
          ( \/ b \notin DOMAIN sessions'
            \/ sessions'[b].messages # sessions[b].messages
            \/ sessions'[b].todos # sessions[b].todos )
          => /\ AddressedTo(b)
             /\ \A a \in SessionIds \ {b} : ~AddressedTo(a)]_vars

\* both invocations are in flight, one waiting for its tool and the other for
\* its completion, and the two sessions hold different logs and todo lists
C27_Witness ==
    /\ pc["p1"] = "tool_wait"
    /\ pc["p2"] = "llm"
    /\ DOMAIN sessions = SessionIds
    /\ Len(sessions["s1"].messages) >= 3
    /\ sessions["s1"].todos = << [content |-> "ship", status |-> "completed"] >>
    /\ sessions["s2"].todos = <<>>
    /\ Len(sessions["s2"].messages) = 1

----------------------------------------------------------------------------
(* The history view *)

\* the view of a list of messages, in its order
ViewOf(messages) == [k \in 1..Len(messages) |-> HistoryEntry(messages[k])]

\* C28: for an existing session with n messages, history_view with a limit
\* N >= 0 returns the last min(N, n) messages of the log in order (nothing for
\* N = 0), and without a limit it returns all n messages in order.
C28_HistoryLimit ==
    (store_call.op = "history" /\ store_call.found) =>
        LET messages == sessions[store_call.sid].messages
            n == Len(messages)
        IN IF store_call.limit = <<>>
           THEN store_call.returns = ViewOf(messages)
           ELSE LET N == store_call.limit[1]
                    m == IF N < n THEN N ELSE n
                IN store_call.returns = ViewOf(SubSeq(messages, n - m + 1, n))

\* what does hold: with a limit N >= 1 the view is the last min(N, n)
\* messages in order, and without a limit it is the whole log
HistoryLimitPositive ==
    (store_call.op = "history" /\ store_call.found) =>
        LET messages == sessions[store_call.sid].messages
            n == Len(messages)
        IN IF store_call.limit = <<>>
           THEN store_call.returns = ViewOf(messages)
           ELSE LET N == store_call.limit[1]
                    m == IF N < n THEN N ELSE n
                IN N >= 1 => store_call.returns = ViewOf(SubSeq(messages, n - m + 1, n))

HistoryLimitPositive_Reached ==
    /\ store_call.op = "history"
    /\ store_call.found
    /\ store_call.limit = << 2 >>
    /\ Len(sessions[store_call.sid].messages) = MaxLog
    /\ Len(store_call.returns) = 2
    /\ store_call.returns[1].content # store_call.returns[2].content

----------------------------------------------------------------------------
(* Roles and the optional fields of a message *)

\* a non-empty tool_calls list only on an assistant message, a tool_call_id
\* only on a tool message
RoleFields(msg) ==
    /\ msg.tool_calls # <<>> => msg.role = "assistant"
    /\ msg.tool_call_id # None => msg.role = "tool"

\* C29: in every reachable state every message of every session carries a
\* non-empty tool_calls list only if its role is 'assistant' and a
\* tool_call_id only if its role is 'tool', whatever add_message was called
\* with.
C29_RoleFields ==
    \A sid \in DOMAIN sessions :
        \A k \in 1..Len(sessions[sid].messages) : RoleFields(sessions[sid].messages[k])

\* what does hold: the messages that process_message and the chat endpoint
\* append keep the optional fields to their roles
RoleFieldsByCallers ==
    \A sid \in DOMAIN sessions :
        \A k \in 1..Len(sessions[sid].messages) : RoleFields(sessions[sid].messages[k])

RoleFieldsByCallers_Reached ==
    \E sid \in DOMAIN sessions :
        /\ \E k \in 1..Len(sessions[sid].messages) :
               sessions[sid].messages[k].tool_calls # <<>>
        /\ \E k \in 1..Len(sessions[sid].messages) :
               sessions[sid].messages[k].tool_call_id # None

----------------------------------------------------------------------------
(* The trace's arguments *)

\* the argument map json.loads gives for the call's payload, {} when it fails
Payload(call) ==
    LET parsed == JsonLoads(call.function.arguments)
    IN IF parsed.ok THEN parsed.value ELSE <<>>

\* C30: the k-th entry of the trace has the name of the k-th executed call, as
\* args the argument map parsed from the call's payload (the empty map when
\* the payload does not parse) with every key still there, and as result the
\* dispatcher's result that was serialized into the call's 'tool' message.
C30_TraceArgs ==
    \A p \in Procs :
        LET msgs == ToolMsgs(p)
            calls == AllCalls(events[p])
            trace == inv[p].tool_results
        IN \A k \in 1..Len(trace) :
               /\ trace[k].tool = calls[k].function.name
               /\ DOMAIN Payload(calls[k]) \subseteq DOMAIN trace[k].args
               /\ trace[k].args = Payload(calls[k])
               /\ SessionThere(p) =>
                      Log(p)[msgs[k].at].content = Dumps(trace[k].result)

\* what does hold: the same for every tool whose branch of the dispatcher
\* does not pop 'operation' from the map
TraceArgsWithoutPop ==
    \A p \in Procs :
        LET msgs == ToolMsgs(p)
            calls == AllCalls(events[p])
            trace == inv[p].tool_results
        IN \A k \in 1..Len(trace) :
               /\ trace[k].tool = calls[k].function.name
               /\ trace[k].tool # "deploy" => trace[k].args = Payload(calls[k])
               /\ trace[k].tool = "deploy" =>
                      trace[k].args = PopOperation(Payload(calls[k]))
               /\ SessionThere(p) =>
                      Log(p)[msgs[k].at].content = Dumps(trace[k].result)

TraceArgsWithoutPop_Reached ==
    \E p \in Procs :
        /\ Len(inv[p].tool_results) = 2
        /\ inv[p].tool_results[1].tool = "deploy"
        /\ inv[p].tool_results[1].args = [name |-> "app"]
        /\ inv[p].tool_results[2].args = <<>>

----------------------------------------------------------------------------
(* The todo list under failing replacements *)

\* an item without content, or with a status that is not a todo status
Invalid(item) ==
    \/ "content" \notin DOMAIN item
    \/ ("status" \in DOMAIN item
          /\ item.status \notin {"pending", "in_progress", "completed"})
HasInvalid(todos) == \E i \in 1..Len(todos) : Invalid(todos[i])

\* the step is a todo_write call on sid with this argument map
WroteTodos(sid, args) ==
    DirectTool(sid, "todo_write", args) \/ WebsocketTool(sid, "todo_write", args)

\* C31: replace_todos on an existing session with a list that has an invalid
\* item (no content, or a status outside pending/in_progress/completed)
\* leaves the session's todo list exactly as it was; a todo_write call with
\* such a list yields an error result and leaves the todo list unchanged too.
C31_ReplaceTodosAtomic ==
    [][\A sid \in DOMAIN sessions, todos \in ReplaceLists :
          HasInvalid(todos) =>
              /\ Replaced(sid, todos) =>
                     /\ sid \in DOMAIN sessions'
                     /\ sessions'[sid].todos = sessions[sid].todos
              /\ WroteTodos(sid, [todos |-> todos]) =>
                     /\ "error" \in DOMAIN api_call'.result
                     /\ sid \in DOMAIN sessions'
                     /\ sessions'[sid].todos = sessions[sid].todos]_vars

\* a session that holds two todos has seen replace_todos raise on a list
\* whose first item is fine and whose second is not, and todo_write fail on
\* a list with an unknown status
C31_Witness ==
    /\ store_call.op = "replace_todos"
    /\ store_call.found
    /\ store_call.raised
    /\ HasInvalid(store_call.todos)
    /\ ~Invalid(store_call.todos[1])
    /\ api_call # <<>>
    /\ api_call.tool_name = "todo_write"
    /\ "todos" \in DOMAIN api_call.args
    /\ api_call.args.todos = BadStatusList
    /\ "error" \in DOMAIN api_call.result
    /\ store_call.sid \in DOMAIN sessions
    /\ Len(sessions[store_call.sid].todos) = 2

\* the dispatcher's result reports failure
ReportsFailure(result) ==
    \/ "error" \in DOMAIN result
    \/ ("success" \in DOMAIN result /\ result.success = FALSE)

\* C32: whenever the dispatcher's result for a todo_write call on an existing
\* session reports failure (an 'error' entry or success = false), also when
\* the argument map has no 'todos' key, the session's todo list is the same
\* after the call as before it.
C32_FailedTodoWriteChangesNothing ==
    [][\A sid \in DOMAIN sessions, args \in TodoWriteArgs :
          (WroteTodos(sid, args) /\ ReportsFailure(api_call'.result)) =>
              /\ sid \in DOMAIN sessions'
              /\ sessions'[sid].todos = sessions[sid].todos]_vars

\* what does hold: a failed todo_write whose argument map has a 'todos' key
\* leaves the todo list alone
FailedTodoWriteWithList ==
    [][\A sid \in DOMAIN sessions, args \in TodoWriteArgs :
          (WroteTodos(sid, args) /\ ReportsFailure(api_call'.result)
             /\ "todos" \in DOMAIN args) =>
              sessions'[sid].todos = sessions[sid].todos]_vars

FailedTodoWriteWithList_Reached ==
    /\ api_call # <<>>
    /\ api_call.tool_name = "todo_write"
    /\ "todos" \in DOMAIN api_call.args
    /\ ReportsFailure(api_call.result)
    /\ \E sid \in DOMAIN sessions : sessions[sid].todos # <<>>

----------------------------------------------------------------------------
(* The outcomes of process_message, counted *)

\* the invocation has returned the max-iterations outcome
HitBound(p) ==
    /\ pc[p] = "returned"
    /\ inv[p].result.message = "Max iterations reached"

\* the calls of the last reply of the invocation
LastCalls(p) ==
    LET evs == events[p]
        j == CHOOSE i \in Rounds(evs) : \A m \in Rounds(evs) : m <= i
    IN evs[j].calls

\* C33: when process_message returns 'Max iterations reached' with bound
\* N >= 1, all N rounds carried tool calls, every call of the last round has
\* been executed and its result appended, the returned trace holds the
\* entries of all N rounds, no message of the log says 'Max iterations
\* reached', and the log ends with the 'tool' messages of the last round.
C33_MaxIterationsOutcome ==
    \A p \in Procs :
        (HitBound(p) /\ inv[p].max_iterations >= 1) =>
            LET evs == events[p]
                calls == AllCalls(evs)
                trace == inv[p].result.tool_results
                msgs == ToolMsgs(p)
                last == LastCalls(p)
                n == Len(last)
                log == Log(p)
            IN /\ Cardinality(Rounds(evs)) = inv[p].max_iterations
               /\ n >= 1
               /\ Len(SelectSeq(evs, LAMBDA ev : ev.e = "invoke")) = Len(calls)
               /\ Len(msgs) = Len(calls)
               /\ Len(trace) = Len(calls)
               /\ \A k \in 1..Len(calls) : trace[k].tool = calls[k].function.name
               /\ SessionThere(p) =>
                      /\ \A i \in 1..Len(log) :
                             log[i].role # "tool" =>
                                 log[i].content # "Max iterations reached"
                      /\ Len(log) >= n
                      /\ \A k \in 1..n :
                             LET m == log[Len(log) - n + k] IN
                             /\ m.role = "tool"
                             /\ m.tool_call_id = last[k].id
                             /\ m.content = Dumps(trace[Len(trace) - n + k].result)

\* two rounds of two calls each ended at the bound, the session still there
C33_Witness ==
    \E p \in Procs :
        /\ HitBound(p)
        /\ inv[p].max_iterations = 2
        /\ SessionThere(p)
        /\ Len(inv[p].result.tool_results) = 4
        /\ Len(LastCalls(p)) = 2
        /\ Log(p)[Len(Log(p))].tool_call_id = "c5"

IsInvoke(ev) == ev.e = "invoke"
IsAppend(ev) == ev.e \in {"user", "assistant", "tool_msg"}

\* the role of the message an append event stands for
RoleOf(ev) == IF ev.e = "tool_msg" THEN "tool" ELSE ev.e

\* C34: an invocation on an existing session that nothing else on that
\* session overlaps, and that makes k completion requests and executes t tool
\* calls, appends exactly 1 + k + t messages, the user message first and then
\* per round the assistant message followed by that round's tool messages,
\* and returns a trace of t entries with iterations = k.
C34_MessageAccounting ==
    \A p \in Procs :
        (pc[p] = "returned" /\ SessionThere(p)
           /\ inv[p].session_id \notin pm_overlap \cup chat_overlap) =>
            LET evs == events[p]
                k == Requests(p)
                t == Len(SelectSeq(evs, IsInvoke))
                appends == SelectSeq(evs, IsAppend)
                before == evs[1].at - 1
                log == Log(p)
            IN /\ evs[1].e = "user"
               /\ Len(appends) = 1 + k + t
               /\ Len(log) = before + 1 + k + t
               /\ \A i \in 1..Len(appends) :
                      /\ appends[i].at = before + i
                      /\ log[before + i].role = RoleOf(appends[i])
                      /\ log[before + i].tool_call_id = appends[i].id
                      /\ log[before + i].tool_calls = appends[i].calls
               /\ \A j \in Rounds(evs) :
                      LET ids == Ids(evs[j].calls) IN
                      \A c \in 1..Len(ids) :
                          /\ log[evs[j].at + c].role = "tool"
                          /\ log[evs[j].at + c].tool_call_id = ids[c]
               /\ Len(inv[p].result.tool_results) = t
               /\ inv[p].result.iterations = k

\* a second invocation on a session that already held a finished turn: two
\* requests, two tool calls, then the final reply
C34_Witness ==
    \E p \in Procs :
        /\ pc[p] = "returned"
        /\ SessionThere(p)
        /\ events[p][1].at > 1
        /\ Requests(p) = 2
        /\ Len(inv[p].result.tool_results) = 2
        /\ inv[p].result.message = "ok"
        /\ Len(Log(p)) = events[p][1].at + 4

\* C35: process_message with max_iterations <= 0 appends the user message,
\* issues no completion request and invokes no tool, and returns 'Max
\* iterations reached' with an empty trace and iterations = 0.
C35_NonPositiveBound ==
    \A p \in Procs :
        (pc[p] # "idle" /\ inv[p].max_iterations <= 0) =>
            LET evs == events[p] IN
            /\ pc[p] = "returned"
            /\ Len(evs) = 2
            /\ evs[1].e = "user"
            /\ evs[2].e = "return"
            /\ Requests(p) = 0
            /\ SelectSeq(evs, IsInvoke) = <<>>
            /\ inv[p].result = [message |-> "Max iterations reached",
                                tool_results |-> <<>>, iterations |-> 0]
            /\ SessionThere(p) =>
                   /\ evs[1].at = Len(Log(p))
                   /\ Log(p)[evs[1].at] = Message("user", "hello", <<>>, None)

\* a call with bound -1 has returned on a session that held an earlier turn
C35_Witness ==
    \E p \in Procs :
        /\ pc[p] = "returned"
        /\ inv[p].max_iterations = -1
        /\ SessionThere(p)
        /\ Len(Log(p)) >= 3
        /\ Log(p)[Len(Log(p)) - 1].role = "assistant"

----------------------------------------------------------------------------
(* process_message on a session that is gone *)

\* the events the step adds to the invocation's record
NewEvents(p) ==
    IF pc[p] = "idle" THEN events'[p]
    ELSE SubSeq(events'[p], Len(events[p]) + 1, Len(events'[p]))

\* a result as process_message returns it on its two normal ways out
NormalResult(p) ==
    /\ DOMAIN inv'[p].result = {"message", "tool_results", "iterations"}
    /\ inv'[p].result.tool_results = inv'[p].tool_results
    /\ inv'[p].result.iterations = Len(SelectSeq(events'[p], IsRequest))
    /\ \/ /\ inv'[p].result.message = "Max iterations reached"
          /\ inv'[p].result.iterations = inv'[p].max_iterations
       \/ /\ inv'[p].result.message \in {"ok", "Error: provider down"}
          /\ events'[p][Len(events'[p]) - 1].e = "assistant"
          /\ events'[p][Len(events'[p]) - 1].calls = <<>>

\* C36: when the session of an invocation does not exist at its start, or
\* has been deleted while it was suspended, its steps raise nothing, create
\* no session and drop every append; the requests it still issues carry an
\* empty history view, every call of a reply is still executed and recorded
\* in the trace, and it returns a normal DONE or max-iterations result. No id
\* that is gone ever names a session again.
C36_SessionGone ==
    [][/\ \A sid \in used_ids \ DOMAIN sessions : sid \notin DOMAIN sessions'
       /\ \A p \in Procs :
             (Acted(p) /\ SessionOf(p) \notin DOMAIN sessions /\ pc[p] # "returned") =>
                 /\ sessions' = sessions
                 /\ pc'[p] \in {"llm", "tools", "tool_wait", "returned"}
                 /\ \A i \in 1..Len(NewEvents(p)) :
                        /\ IsAppend(NewEvents(p)[i]) => NewEvents(p)[i].at = 0
                        /\ IsRequest(NewEvents(p)[i]) => inv'[p].history = <<>>
                 /\ pc'[p] = "returned" =>
                        /\ NormalResult(p)
                        /\ Len(inv'[p].tool_results) = Len(AllCalls(events'[p]))
                        /\ Len(SelectSeq(events'[p], IsInvoke)) =
                               Len(AllCalls(events'[p]))]_vars

\* the session was deleted after the user message landed; the invocation
\* went through two rounds of tool calls all the same and came back at the
\* bound
C36_Witness ==
    \E p \in Procs :
        /\ pc[p] = "returned"
        /\ ~SessionThere(p)
        /\ events[p][1].at > 0
        /\ Requests(p) = 2
        /\ Len(inv[p].result.tool_results) = 4
        /\ inv[p].result.message = "Max iterations reached"
        /\ \A i \in 2..Len(events[p]) : events[p][i].at = 0

----------------------------------------------------------------------------
(* Routing of low-confidence messages, ties and providers *)

\* the category that scored highest in the last select_model call
RawWinner ==
    TaskCategory[MaxKey(Scores(router_call.message, router_call.context))]

\* C37: without force_tier, a message whose confidence is below 0.3 is
\* returned as 'conversation' and routed to the standard tier, never to fast
\* or premium, also when the category that scored highest was debugging or
\* architecture.
C37_FallbackRoutesToStandard ==
    (router_call.op = "select" /\ router_call.force_tier = None
       /\ BelowThreshold(router_call.classified.confidence)) =>
        /\ router_call.returns.category = "conversation"
        /\ router_call.returns.tier = "standard"
        /\ router_call.returns.model \in
               {"gpt-4-turbo-preview", "claude-3-sonnet-20240229"}

\* debugging scored highest, with a confidence below 0.3 but above zero
C37_Witness ==
    /\ router_call.op = "select"
    /\ router_call.force_tier = None
    /\ BelowThreshold(router_call.classified.confidence)
    /\ router_call.classified.confidence.num > 0
    /\ RawWinner = "debugging"
    /\ router_call.returns.tier = "standard"

\* the categories in the order the enumeration declares them
Declared ==
    << "simple_query", "file_operation", "code_generation", "code_analysis",
       "debugging", "architecture", "data_analysis", "tool_execution",
       "conversation", "planning" >>

\* the positions that share the highest score of the last classify call
Leaders == { i \in 1..Len(Declared) : router_call.scores[i] = TopScore }

FirstLeader == CHOOSE i \in Leaders : \A j \in Leaders : i <= j

\* C38: when several categories share the highest score, classify picks the
\* one declared first in the enumeration: that category is returned unless
\* the confidence is below 0.3, and the confidence is its score over the
\* divisor; when every score is zero the pick is simple_query, the confidence
\* is 0 and 'conversation' is returned.
C38_TieBreak ==
    router_call.op = "classify" =>
        /\ Len(router_call.scores) = Len(Declared)
        /\ TaskCategory[MaxKey(router_call.scores)] = Declared[FirstLeader]
        /\ ~BelowThreshold(router_call.returns.confidence) =>
               router_call.returns.category = Declared[FirstLeader]
        /\ TopScore = 0 =>
               /\ Declared[FirstLeader] = "simple_query"
               /\ router_call.returns.confidence.num = 0
               /\ router_call.returns.category = "conversation"

\* two categories other than simple_query share the highest score, and the
\* earlier of them is returned
C38_Witness ==
    /\ router_call.op = "classify"
    /\ Cardinality(Leaders) >= 2
    /\ TopScore > 0
    /\ FirstLeader > 1
    /\ router_call.returns.category = Declared[FirstLeader]

\* the model names the settings give each provider, per tier
Configured ==
    [openai |-> [fast |-> "gpt-3.5-turbo", standard |-> "gpt-4-turbo-preview",
                 premium |-> "gpt-4"],
     anthropic |-> [fast |-> "claude-3-haiku-20240307",
                    standard |-> "claude-3-sonnet-20240229",
                    premium |-> "claude-3-opus-20240229"]]

\* the provider the last select_model call is to use
ExpectedProvider ==
    IF router_call.prefer_provider # None THEN router_call.prefer_provider
    ELSE IF router_call.keys.openai_api_key # None THEN "openai"
    ELSE IF router_call.keys.anthropic_api_key # None THEN "anthropic"
    ELSE "openai"

\* C39: select_model uses the preferred provider when one is given;
\* otherwise openai when OpenAI credentials are configured (with or without
\* Anthropic ones), otherwise anthropic when only Anthropic credentials are
\* configured, otherwise openai; the model it returns is that provider's
\* configured model for the tier it returns.
C39_ProviderResolution ==
    (router_call.op = "select"
       /\ router_call.prefer_provider \in {None, "openai", "anthropic"}) =>
        router_call.returns.model =
            Configured[ExpectedProvider][router_call.returns.tier]

\* openai is preferred while only Anthropic credentials are configured
C39_Witness ==
    /\ router_call.op = "select"
    /\ router_call.prefer_provider = "openai"
    /\ router_call.keys = [openai_api_key |-> None, anthropic_api_key |-> "sk-a"]
    /\ router_call.force_tier = None
    /\ router_call.returns.model = "gpt-4"

----------------------------------------------------------------------------
(* The lifetime of a session's cost tracker *)

\* the tracker of sid is still there, its old entries untouched, its history
\* at most grown at the end
TrackerKept(sid) ==
    /\ sid \in DOMAIN session_trackers'
    /\ LET old == session_trackers[sid].usage_history
           new == session_trackers'[sid].usage_history
       IN /\ Len(new) >= Len(old)
          /\ SubSeq(new, 1, Len(old)) = old

\* the sessions the last all_costs call should count: trackers of sessions
\* that have not been deleted
LiveTrackers == DOMAIN session_trackers \ (used_ids \ DOMAIN sessions)

\* C40: a tracker created by track_usage stays, with all its entries
\* unmodified, for as long as its session exists, and its history only grows
\* by appends; deleting the session through the store removes the tracker
\* too, so all_costs does not count a deleted session.
C40_TrackerLifetime ==
    [][/\ \A sid \in DOMAIN session_trackers \cap DOMAIN sessions :
             /\ sid \in DOMAIN sessions' => TrackerKept(sid)
             /\ Deleted(sid) => sid \notin DOMAIN session_trackers'
       /\ (router_call'.op = "all_costs" /\ \E tie_up \in BOOLEAN : GetAllCosts(tie_up)) =>
             router_call'.returns.sessions = Cardinality(LiveTrackers)]_vars

\* what does hold: no step removes a tracker or touches its recorded entries,
\* whether its session exists or not, and all_costs counts every tracker
TrackersOnlyGrow ==
    [][/\ \A sid \in DOMAIN session_trackers : TrackerKept(sid)
       /\ (router_call'.op = "all_costs" /\ \E tie_up \in BOOLEAN : GetAllCosts(tie_up)) =>
             router_call'.returns.sessions = Cardinality(DOMAIN session_trackers)]_vars

TrackersOnlyGrow_Reached ==
    /\ router_call.op = "all_costs"
    /\ router_call.returns.sessions = 2
    /\ router_call.returns.total_requests = 3
    /\ DOMAIN sessions = {"s2"}
    /\ "s1" \in used_ids

====
